---- MODULE Spec2Model ----
(***************************************************************************)
(* GrowProxy: the packet codec (textParse.js, which also holds the packet  *)
(* module), the command registry, the world state and the relay core       *)
(* (proxyCore.js), as a state machine.                                     *)
(*                                                                         *)
(* Buffers are sequences of bytes (0..255).  Strings are sequences of      *)
(* character codes; the frames of the model carry ASCII only, so UTF-8     *)
(* decoding of a byte sequence is the sequence itself.                     *)
(* A JavaScript value is a record [t, v] with v always a sequence:         *)
(*   number  [t |-> "num", v |-> <<n>>]     string [t |-> "str", v |-> s]  *)
(*   float   [t |-> "float", v |-> 4 bytes] vec    [t |-> "vec", v |-> b]  *)
(*   undefined [t |-> "undef", v |-> <<>>]                                 *)
(***************************************************************************)
EXTENDS Integers, Sequences, FiniteSets, TLC

VARIABLES
  scenario,             \* which part of the program the behaviour exercises
  phase,                \* "constructed", "running", "stopped", "exited"
  clientPeer,           \* ProxyCore.clientPeer: net-id or NoPeer
  serverPeer,           \* ProxyCore.serverPeer: net-id or NoPeer
  pendingAddress,       \* ProxyCore.pendingAddress
  pendingPort,          \* ProxyCore.pendingPort
  upstreamRetryTimer,   \* TRUE while the retry timeout is pending
  upstreamRetryCount,   \* ProxyCore.upstreamRetryCount
  proxyClientListening, \* ProxyCore.proxyClientListening
  world,                \* WorldState: [players, localNetId]
  tasksByTag,           \* TaskScheduler.tasksByTag: the Map, as a set of [tag, id]
  timers,               \* the pending timeouts of scheduleDelayed: [id, tag, cb]
  exitTimer,            \* TRUE while the exit command's process.exit timer is pending
  commands,             \* CommandRegistry.commands: the registered keys
  inConn,               \* transport state of the inbound peer slot
  outConns,             \* transport state of each outbound peer slot
  last,                 \* what the latest handler was given and what it did
  hist                  \* counts since the first connectPendingServer call, and
                        \* the frames received and handed on (kept in the
                        \* scenarios that are about them)

vars == <<scenario, phase, clientPeer, serverPeer, pendingAddress, pendingPort,
          upstreamRetryTimer, upstreamRetryCount, proxyClientListening, world,
          tasksByTag, timers, exitTimer, commands, inConn, outConns, last, hist>>

relayVars == <<phase, clientPeer, serverPeer, pendingAddress, pendingPort,
               upstreamRetryTimer, upstreamRetryCount, proxyClientListening,
               tasksByTag, timers, exitTimer, inConn, outConns, hist>>

(***************************************************************************)
(* Bounds of the model                                                     *)
(***************************************************************************)
MaxNetId == 3
MaxCmdLen == 3
MaxOutPeers == 2
MaxArrivals == 3
MaxSchedules == 3
MaxBodyLines == 2
MaxRequests == 2
MaxTextLen == 3

(***************************************************************************)
(* Program constants                                                       *)
(***************************************************************************)
NET_MESSAGE_SERVER_HELLO == 1
NET_MESSAGE_GENERIC_TEXT == 2
NET_MESSAGE_GAME_MESSAGE == 3
NET_MESSAGE_GAME_PACKET == 4
GAME_PACKET_CALL_FUNCTION == 1
GAME_PACKET_DISCONNECT == 26
VARIANT_FLOAT == 1
VARIANT_STRING == 2
VARIANT_VEC2 == 3
VARIANT_VEC3 == 4
VARIANT_UNSIGNED == 5
VARIANT_SIGNED == 9
INT32_MAX == 2147483647
TankHeaderLen == 60
RetryBudget == 12
NoPort == 65535
ListenPort == 16999
NoPeer == -1

(***************************************************************************)
(* JavaScript values                                                       *)
(***************************************************************************)
Num(n) == [t |-> "num", v |-> <<n>>]
Str(s) == [t |-> "str", v |-> s]
Flt(b) == [t |-> "float", v |-> b]
Vec(b) == [t |-> "vec", v |-> b]
Undef == [t |-> "undef", v |-> <<>>]

\* an integer of 2^31..2^32-1, more than an integer of the model holds: it
\* is kept as m, the integer less 2^32, which has the same low 32 bits
Wide(m) == [t |-> "num", v |-> <<m, 1>>]

IsWide(x) == x.t = "num" /\ Len(x.v) = 2

IsStr(x) == x.t = "str"

(***************************************************************************)
(* Character codes and string literals                                     *)
(***************************************************************************)
ChPipe == <<124>>
ChNewline == <<10>>
ChSlash == <<47>>
StrAction == <<97, 99, 116, 105, 111, 110>>
StrText == <<116, 101, 120, 116>>
StrTextPipe == <<116, 101, 120, 116, 124>>
StrPipeTextPipe == <<124, 116, 101, 120, 116, 124>>
StrInput == <<105, 110, 112, 117, 116>>
StrQuit == <<113, 117, 105, 116>>
StrQuitToExit == <<113, 117, 105, 116, 95, 116, 111, 95, 101, 120, 105, 116>>
StrJoinRequest == <<106, 111, 105, 110, 95, 114, 101, 113, 117, 101, 115, 116>>
StrValidateWorld == <<118, 97, 108, 105, 100, 97, 116, 101, 95, 119, 111, 114, 108, 100>>
StrLog == <<108, 111, 103>>
StrOnSendToServer == <<79, 110, 83, 101, 110, 100, 84, 111, 83, 101, 114, 118, 101, 114>>
StrOnSpawn == <<79, 110, 83, 112, 97, 119, 110>>
StrOnRemove == <<79, 110, 82, 101, 109, 111, 118, 101>>
StrOnNameChanged == <<79, 110, 78, 97, 109, 101, 67, 104, 97, 110, 103, 101, 100>>
StrOnChangeSkin == <<79, 110, 67, 104, 97, 110, 103, 101, 83, 107, 105, 110>>
StrLocalhost == <<49, 50, 55, 46, 48, 46, 48, 46, 49>>

(***************************************************************************)
(* Generic sequence helpers                                                *)
(***************************************************************************)
Slice(s, from, to) == IF from >= to THEN <<>> ELSE SubSeq(s, from + 1, to)

StartsWith(s, p) == Len(s) >= Len(p) /\ SubSeq(s, 1, Len(p)) = p

RECURSIVE IndexOfFrom(_, _, _)
IndexOfFrom(s, c, i) ==
  IF i > Len(s) THEN -1
  ELSE IF s[i] = c THEN i - 1
  ELSE IndexOfFrom(s, c, i + 1)

IndexOf(s, c) == IndexOfFrom(s, c, 1)

RECURSIVE SplitOn(_, _)
SplitOn(s, c) ==
  LET i == IndexOf(s, c) IN
  IF i < 0 THEN <<s>>
  ELSE <<Slice(s, 0, i)>> \o SplitOn(Slice(s, i + 1, Len(s)), c)

(***************************************************************************)
(* Little-endian integers (Buffer.readUInt32LE and friends); pos is the    *)
(* 0-based offset of the code                                              *)
(***************************************************************************)
WriteUInt32LE(n) ==
  <<n % 256, (n \div 256) % 256, (n \div 65536) % 256, (n \div 16777216) % 256>>

WriteInt32LE(n) ==
  IF n >= 0 THEN WriteUInt32LE(n)
  ELSE LET m == n + INT32_MAX + 1 IN
       <<m % 256, (m \div 256) % 256, (m \div 65536) % 256,
         ((m \div 16777216) % 256) + 128>>

ReadUInt32LE(buf, pos) ==
  buf[pos + 1] + 256 * buf[pos + 2] + 65536 * buf[pos + 3]
    + 16777216 * buf[pos + 4]

ReadInt32LE(buf, pos) ==
  buf[pos + 1] + 256 * buf[pos + 2] + 65536 * buf[pos + 3]
    + 16777216 * (IF buf[pos + 4] >= 128 THEN buf[pos + 4] - 256 ELSE buf[pos + 4])

(***************************************************************************)
(* Strings are sequences of UTF-16 code units; Buffer.from(text, "utf8")   *)
(* and buffer.toString("utf8")                                             *)
(***************************************************************************)
IsHighSurrogate(c) == c >= 55296 /\ c <= 56319
IsLowSurrogate(c) == c >= 56320 /\ c <= 57343
IsContinuation(b) == b >= 128 /\ b <= 191

\* the code point of a surrogate pair
PairCodePoint(high, low) == 65536 + (high - 55296) * 1024 + (low - 56320)

\* Buffer.from(text, "utf8"): a surrogate without its partner is written
\* as U+FFFD
RECURSIVE Utf8Encode(_)
Utf8Encode(text) ==
  IF text = <<>> THEN <<>>
  ELSE IF Head(text) < 128 THEN <<Head(text)>> \o Utf8Encode(Tail(text))
  ELSE IF Head(text) < 2048
       THEN <<192 + (Head(text) \div 64), 128 + (Head(text) % 64)>>
              \o Utf8Encode(Tail(text))
  ELSE IF IsHighSurrogate(Head(text)) /\ Len(text) >= 2 /\ IsLowSurrogate(text[2])
       THEN <<240 + (PairCodePoint(text[1], text[2]) \div 262144),
              128 + ((PairCodePoint(text[1], text[2]) \div 4096) % 64),
              128 + ((PairCodePoint(text[1], text[2]) \div 64) % 64),
              128 + (PairCodePoint(text[1], text[2]) % 64)>>
              \o Utf8Encode(Tail(Tail(text)))
  ELSE IF IsHighSurrogate(Head(text)) \/ IsLowSurrogate(Head(text))
       THEN <<239, 191, 189>> \o Utf8Encode(Tail(text))
  ELSE <<224 + (Head(text) \div 4096), 128 + ((Head(text) \div 64) % 64),
         128 + (Head(text) % 64)>>
         \o Utf8Encode(Tail(text))

\* whether b may follow the lead byte of a sequence of three or four bytes
SecondByteFits(lead, b) ==
  CASE lead = 224 -> b >= 160 /\ b <= 191
    [] lead = 237 -> b >= 128 /\ b <= 159
    [] lead = 240 -> b >= 144 /\ b <= 191
    [] lead = 244 -> b >= 128 /\ b <= 143
    [] OTHER -> IsContinuation(b)

\* the number of bytes the sequence of a lead byte has, 0 for a byte that
\* leads none
SequenceLen(lead) ==
  IF lead < 128 THEN 1
  ELSE IF lead >= 194 /\ lead <= 223 THEN 2
  ELSE IF lead >= 224 /\ lead <= 239 THEN 3
  ELSE IF lead >= 240 /\ lead <= 244 THEN 4
  ELSE 0

\* the bytes of the sequence that starts the buffer and are well formed as
\* far as they go
RECURSIVE WellFormedPrefix(_, _)
WellFormedPrefix(bytes, k) ==
  IF k >= SequenceLen(bytes[1]) \/ k >= Len(bytes) THEN k
  ELSE IF (k = 1 /\ SecondByteFits(bytes[1], bytes[2]))
          \/ (k > 1 /\ IsContinuation(bytes[k + 1]))
       THEN WellFormedPrefix(bytes, k + 1)
  ELSE k

\* the code units of a whole sequence of n bytes
DecodedUnits(bytes, n) ==
  CASE n = 1 -> <<bytes[1]>>
    [] n = 2 -> <<(bytes[1] - 192) * 64 + (bytes[2] - 128)>>
    [] n = 3 -> <<(bytes[1] - 224) * 4096 + (bytes[2] - 128) * 64 + (bytes[3] - 128)>>
    [] n = 4 ->
         <<55296 + ((((bytes[1] - 240) * 262144 + (bytes[2] - 128) * 4096
                       + (bytes[3] - 128) * 64 + (bytes[4] - 128)) - 65536) \div 1024),
           56320 + ((((bytes[1] - 240) * 262144 + (bytes[2] - 128) * 4096
                       + (bytes[3] - 128) * 64 + (bytes[4] - 128)) - 65536) % 1024)>>

\* buffer.toString("utf8"): an ill-formed sequence gives U+FFFD
RECURSIVE Utf8Decode(_)
Utf8Decode(bytes) ==
  IF bytes = <<>> THEN <<>>
  ELSE IF SequenceLen(bytes[1]) = 0
       THEN <<65533>> \o Utf8Decode(Tail(bytes))
  ELSE IF WellFormedPrefix(bytes, 1) = SequenceLen(bytes[1])
       THEN DecodedUnits(bytes, SequenceLen(bytes[1]))
              \o Utf8Decode(SubSeq(bytes, SequenceLen(bytes[1]) + 1, Len(bytes)))
  ELSE <<65533>>
         \o Utf8Decode(SubSeq(bytes, WellFormedPrefix(bytes, 1) + 1, Len(bytes)))

(***************************************************************************)
(* textParse.js: TextParse                                                 *)
(***************************************************************************)
\* a tokenize that skips one leading empty token only
DropFirstEmpty(tokens) ==
  IF tokens # <<>> /\ Head(tokens) = <<>> THEN Tail(tokens) ELSE tokens

RECURSIVE DropLeadingEmpty(_)
DropLeadingEmpty(tokens) ==
  IF tokens = <<>> THEN <<>>
  ELSE IF Head(tokens) = <<>> THEN DropLeadingEmpty(Tail(tokens))
  ELSE tokens

\* TextParse.tokenize(raw, "|", true): an empty token is skipped while the
\* output is still empty
Tokenize(raw) ==
  IF raw = <<>> THEN <<>> ELSE DropLeadingEmpty(SplitOn(raw, ChPipe[1]))

RECURSIVE ParseLines(_)
ParseLines(lines) ==
  IF lines = <<>> THEN <<>>
  ELSE LET tokens == Tokenize(Head(lines)) IN
       IF Len(tokens) < 2 THEN ParseLines(Tail(lines))
       ELSE <<[key |-> tokens[1], values |-> Tail(tokens)]>> \o ParseLines(Tail(lines))

\* new TextParse(raw).entries
TextParse(raw) == IF raw = <<>> THEN <<>> ELSE ParseLines(SplitOn(raw, ChNewline[1]))

RECURSIVE FindEntry(_, _)
FindEntry(entries, key) ==
  IF entries = <<>> THEN <<>>
  ELSE IF Head(entries).key = key THEN <<Head(entries)>>
  ELSE FindEntry(Tail(entries), key)

\* TextParse.get(key, index)
TextGet(entries, key, index) ==
  LET found == FindEntry(entries, key) IN
  IF found = <<>> THEN <<>>
  ELSE IF index < 0 \/ index >= Len(found[1].values) THEN <<>>
  ELSE found[1].values[index + 1]

(***************************************************************************)
(* textParse.js: the packet module                                         *)
(***************************************************************************)
StripNullTerminator(buffer) ==
  IF Len(buffer) > 0 /\ buffer[Len(buffer)] = 0
  THEN SubSeq(buffer, 1, Len(buffer) - 1)
  ELSE buffer

EnsureNullTerminator(buffer) ==
  IF Len(buffer) > 0 /\ buffer[Len(buffer)] = 0
  THEN buffer
  ELSE Append(buffer, 0)

ParseFailed == [ok |-> FALSE, count |-> 0, entries |-> <<>>]

\* payload length of a fixed-size variant type, -1 for STRING, -2 for a
\* type tag the decoder rejects
VariantPayloadLen(type) ==
  CASE type = VARIANT_FLOAT -> 4
    [] type = VARIANT_STRING -> -1
    [] type = VARIANT_VEC2 -> 8
    [] type = VARIANT_VEC3 -> 12
    [] type = VARIANT_UNSIGNED -> 4
    [] type = VARIANT_SIGNED -> 4
    [] OTHER -> -2

VariantValue(type, buf, pos) ==
  CASE type = VARIANT_FLOAT -> Flt(Slice(buf, pos, pos + 4))
    [] type = VARIANT_VEC2 -> Vec(Slice(buf, pos, pos + 8))
    [] type = VARIANT_VEC3 -> Vec(Slice(buf, pos, pos + 12))
    [] type = VARIANT_UNSIGNED ->
         IF buf[pos + 4] >= 128 THEN Wide(ReadInt32LE(buf, pos))
         ELSE Num(ReadUInt32LE(buf, pos))
    [] type = VARIANT_SIGNED -> Num(ReadInt32LE(buf, pos))

\* a decoder that returns the entries decoded before a fault
RECURSIVE ParseEntriesKeepingPrefix(_, _, _, _)
ParseEntriesKeepingPrefix(buf, pos, remaining, acc) ==
  IF remaining = 0 THEN [ok |-> TRUE, count |-> Len(acc), entries |-> acc]
  ELSE IF pos + 2 > Len(buf) THEN [ok |-> TRUE, count |-> Len(acc), entries |-> acc]
  ELSE
    LET index == buf[pos + 1]
        type == buf[pos + 2]
        p == pos + 2
        fixed == VariantPayloadLen(type)
    IN
    IF fixed = -2 THEN [ok |-> TRUE, count |-> Len(acc), entries |-> acc]
    ELSE IF fixed = -1 THEN
      IF p + 4 > Len(buf) THEN [ok |-> TRUE, count |-> Len(acc), entries |-> acc]
      ELSE LET strLen == ReadUInt32LE(buf, p) IN
           IF p + 4 + strLen > Len(buf) THEN [ok |-> TRUE, count |-> Len(acc), entries |-> acc]
           ELSE ParseEntriesKeepingPrefix(buf, p + 4 + strLen, remaining - 1,
                  Append(acc, [index |-> index, type |-> type,
                               value |-> Str(Utf8Decode(Slice(buf, p + 4, p + 4 + strLen))),
                               encoded |-> Slice(buf, pos, p + 4 + strLen)]))
    ELSE
      IF p + fixed > Len(buf) THEN [ok |-> TRUE, count |-> Len(acc), entries |-> acc]
      ELSE ParseEntriesKeepingPrefix(buf, p + fixed, remaining - 1,
             Append(acc, [index |-> index, type |-> type,
                          value |-> VariantValue(type, buf, p),
                          encoded |-> Slice(buf, pos, p + fixed)]))

RECURSIVE ParseEntriesFrom(_, _, _, _)
ParseEntriesFrom(buf, pos, remaining, acc) ==
  IF remaining = 0 THEN [ok |-> TRUE, count |-> Len(acc), entries |-> acc]
  ELSE IF pos + 2 > Len(buf) THEN ParseFailed
  ELSE
    LET index == buf[pos + 1]
        type == buf[pos + 2]
        p == pos + 2
        fixed == VariantPayloadLen(type)
    IN
    IF fixed = -2 THEN ParseFailed
    ELSE IF fixed = -1 THEN
      IF p + 4 > Len(buf) THEN ParseFailed
      ELSE LET strLen == ReadUInt32LE(buf, p) IN
           IF p + 4 + strLen > Len(buf) THEN ParseFailed
           ELSE ParseEntriesFrom(buf, p + 4 + strLen, remaining - 1,
                  Append(acc, [index |-> index, type |-> type,
                               value |-> Str(Utf8Decode(Slice(buf, p + 4, p + 4 + strLen))),
                               encoded |-> Slice(buf, pos, p + 4 + strLen)]))
    ELSE
      IF p + fixed > Len(buf) THEN ParseFailed
      ELSE ParseEntriesFrom(buf, p + fixed, remaining - 1,
             Append(acc, [index |-> index, type |-> type,
                          value |-> VariantValue(type, buf, p),
                          encoded |-> Slice(buf, pos, p + fixed)]))

ParseVariantEntries(extraBuffer) ==
  IF Len(extraBuffer) = 0 THEN [ok |-> TRUE, count |-> 0, entries |-> <<>>]
  ELSE LET parsed == ParseEntriesFrom(extraBuffer, 1, extraBuffer[1], <<>>) IN
       IF parsed.ok THEN [parsed EXCEPT !.count = extraBuffer[1]] ELSE ParseFailed

\* args[entry.index] = entry.value over a JavaScript array: holes are
\* undefined and a later entry overwrites an earlier one of the same index
RECURSIVE AssignArgs(_, _)
AssignArgs(args, entries) ==
  IF entries = <<>> THEN args
  ELSE
    LET e == Head(entries)
        n == IF e.index + 1 > Len(args) THEN e.index + 1 ELSE Len(args)
        next == [i \in 1..n |->
                  IF i = e.index + 1 THEN e.value
                  ELSE IF i <= Len(args) THEN args[i] ELSE Undef]
    IN AssignArgs(next, Tail(entries))

ParseVariantArgs(extraBuffer) ==
  LET parsed == ParseVariantEntries(extraBuffer) IN
  IF ~parsed.ok THEN <<>> ELSE AssignArgs(<<>>, parsed.entries)

\* buildVariantEntry for the types the rewrite path and the model's frames
\* use; a float or vector value carries its bytes
BuildVariantEntry(index, type, value) ==
  LET indexBuffer == <<index % 256, type % 256>> IN
  CASE type = VARIANT_STRING ->
         LET text == IF IsStr(value) THEN Utf8Encode(value.v) ELSE <<>> IN
         indexBuffer \o WriteUInt32LE(Len(text)) \o text
    [] type = VARIANT_UNSIGNED -> indexBuffer \o WriteUInt32LE(value.v[1])
    [] type = VARIANT_SIGNED -> indexBuffer \o WriteInt32LE(value.v[1])
    [] type \in {VARIANT_FLOAT, VARIANT_VEC2, VARIANT_VEC3} -> indexBuffer \o value.v
    [] OTHER -> <<>>

\* encodeVariantEntries: the count byte, then each entry's encoded slice
RECURSIVE EncodedOf(_)
EncodedOf(entries) ==
  IF entries = <<>> THEN <<>> ELSE Head(entries).encoded \o EncodedOf(Tail(entries))

EncodeVariantEntries(parsed) == <<parsed.count % 256>> \o EncodedOf(parsed.entries)

\* a search that returns the last entry of the index
RECURSIVE FindLastByIndex(_, _, _)
FindLastByIndex(entries, index, i) ==
  IF i > Len(entries) THEN 0
  ELSE LET later == FindLastByIndex(entries, index, i + 1) IN
       IF later # 0 THEN later
       ELSE IF entries[i].index = index THEN i ELSE 0

RECURSIVE FindByIndex(_, _, _)
FindByIndex(entries, index, i) ==
  IF i > Len(entries) THEN 0
  ELSE IF entries[i].index = index THEN i
  ELSE FindByIndex(entries, index, i + 1)

\* a rewrite that leaves the payload as it came
RewriteNothing(extraBuffer, newAddress, newPort) == extraBuffer

\* rewriteOnSendToServerExtra(extraBuffer, newAddress, newPort): <<>> stands
\* for the null result (an encoded list is never empty)
RewriteOnSendToServerExtra(extraBuffer, newAddress, newPort) ==
  LET parsed == ParseVariantEntries(extraBuffer)
      entries == parsed.entries
      fi == FindByIndex(entries, 0, 1)
      pi == FindByIndex(entries, 1, 1)
      ri == FindByIndex(entries, 4, 1)
  IN
  IF ~parsed.ok \/ Len(entries) = 0 THEN <<>>
  ELSE IF fi = 0 \/ entries[fi].type # VARIANT_STRING
          \/ entries[fi].value # Str(StrOnSendToServer) THEN <<>>
  ELSE IF pi = 0 \/ ri = 0 \/ entries[ri].type # VARIANT_STRING THEN <<>>
  ELSE
    LET routeText == entries[ri].value.v
        separatorIndex == IndexOf(routeText, ChPipe[1])
        rewrittenRoute == IF separatorIndex >= 0
                          THEN newAddress \o Slice(routeText, separatorIndex, Len(routeText))
                          ELSE newAddress
        portType == IF entries[pi].type \in {VARIANT_SIGNED, VARIANT_UNSIGNED}
                    THEN entries[pi].type ELSE VARIANT_UNSIGNED
        withPort == [entries EXCEPT
                       ![pi].value = Num(newPort),
                       ![pi].encoded = BuildVariantEntry(entries[pi].index, portType, Num(newPort))]
        withRoute == [withPort EXCEPT
                       ![ri].value = Str(rewrittenRoute),
                       ![ri].encoded = BuildVariantEntry(withPort[ri].index, VARIANT_STRING,
                                                         Str(rewrittenRoute))]
    IN EncodeVariantEntries([parsed EXCEPT !.entries = withRoute])

\* encodeVariantArgs, the chunks pushed for the argument of index i - 1:
\* strings, integers, floats and vectors
EncodeArg(args, i) ==
  <<(i - 1) % 256>> \o
    (CASE args[i].t = "str" ->
            <<VARIANT_STRING>> \o WriteUInt32LE(Len(Utf8Encode(args[i].v)))
              \o Utf8Encode(args[i].v)
       [] args[i].t = "num" /\ IsWide(args[i]) ->
            <<VARIANT_UNSIGNED>> \o WriteInt32LE(args[i].v[1])
       [] args[i].t = "num" /\ ~IsWide(args[i]) /\ args[i].v[1] >= 0 ->
            <<VARIANT_UNSIGNED>> \o WriteUInt32LE(args[i].v[1])
       [] args[i].t = "num" /\ ~IsWide(args[i]) /\ args[i].v[1] < 0 ->
            <<VARIANT_SIGNED>> \o WriteInt32LE(args[i].v[1])
       [] args[i].t = "float" -> <<VARIANT_FLOAT>> \o args[i].v
       [] args[i].t = "vec" ->
            <<IF Len(args[i].v) = 8 THEN VARIANT_VEC2 ELSE VARIANT_VEC3>> \o args[i].v
       [] OTHER -> <<VARIANT_STRING>> \o WriteUInt32LE(0))

\* Buffer.concat of the chunks of the arguments from..to, in order
RECURSIVE EncodeArgsFrom(_, _, _)
EncodeArgsFrom(args, from, to) ==
  IF from > to THEN <<>>
  ELSE IF from = to THEN EncodeArg(args, from)
  ELSE EncodeArgsFrom(args, from, (from + to) \div 2)
         \o EncodeArgsFrom(args, ((from + to) \div 2) + 1, to)

\* Buffer.from([n]) keeps the low eight bits of n
EncodeVariantArgs(args) ==
  <<Len(args) % 256>> \o EncodeArgsFrom(args, 1, Len(args))

\* a record for every result of parsePacket; the fields a kind does not
\* have hold defaults, hasVariantArgs is Array.isArray(parsed.variantArgs)
RawPacket ==
  [kind |-> "raw", packetId |-> "Unknown", messageType |-> 0, text |-> <<>>,
   inputText |-> <<>>, packetType |-> 0, netId |-> 0, targetNetId |-> 0,
   state |-> 0, info |-> 0, dataSize |-> 0, extra |-> <<>>, header |-> <<>>,
   hasVariantArgs |-> FALSE, variantArgs |-> <<>>]

ActionPacketId(action) ==
  CASE action = StrQuit -> "Quit"
    [] action = StrQuitToExit -> "QuitToExit"
    [] action = StrJoinRequest -> "JoinRequest"
    [] action = StrValidateWorld -> "ValidateWorld"
    [] action = StrInput -> "Input"
    [] action = StrLog -> "Log"
    [] OTHER -> "Unknown"

VariantFunctionPacketId(fn) ==
  CASE fn = StrOnSendToServer -> "OnSendToServer"
    [] fn = StrOnSpawn -> "OnSpawn"
    [] fn = StrOnRemove -> "OnRemove"
    [] fn = StrOnNameChanged -> "OnNameChanged"
    [] fn = StrOnChangeSkin -> "OnChangeSkin"
    [] OTHER -> "Unknown"

ParseTextPacket(rawBuffer) ==
  LET buffer == StripNullTerminator(rawBuffer) IN
  IF Len(buffer) < 4 THEN RawPacket
  ELSE
    LET messageType == ReadUInt32LE(buffer, 0)
        message == Utf8Decode(Slice(buffer, 4, Len(buffer)))
        parser == TextParse(message)
        packetId == IF messageType = NET_MESSAGE_SERVER_HELLO THEN "ServerHello"
                    ELSE ActionPacketId(TextGet(parser, StrAction, 0))
        direct == TextGet(parser, StrText, 0)
        inputText == IF packetId # "Input" THEN <<>>
                     ELSE IF direct # <<>> THEN direct
                     ELSE TextGet(parser, <<>>, 1)
    IN [RawPacket EXCEPT !.kind = "text", !.messageType = messageType,
                         !.text = message, !.packetId = packetId,
                         !.inputText = inputText]

ParseTankPacket(rawBuffer) ==
  LET buffer == StripNullTerminator(rawBuffer) IN
  IF Len(buffer) < TankHeaderLen THEN RawPacket
  ELSE IF ReadUInt32LE(buffer, 0) # NET_MESSAGE_GAME_PACKET THEN RawPacket
  ELSE
    LET type == buffer[5]
        dataSize == ReadUInt32LE(buffer, 56)
        extraEnd == IF Len(buffer) < TankHeaderLen + dataSize
                    THEN Len(buffer) ELSE TankHeaderLen + dataSize
        extra == Slice(buffer, TankHeaderLen, extraEnd)
        variantArgs == IF type = GAME_PACKET_CALL_FUNCTION
                       THEN ParseVariantArgs(extra) ELSE <<>>
        variantFunction == IF Len(variantArgs) > 0 /\ IsStr(variantArgs[1])
                           THEN variantArgs[1].v ELSE <<>>
        packetId == IF type = GAME_PACKET_CALL_FUNCTION
                    THEN VariantFunctionPacketId(variantFunction)
                    ELSE IF type = GAME_PACKET_DISCONNECT THEN "Disconnect"
                    ELSE "Unknown"
    IN [RawPacket EXCEPT !.kind = "tank",
                         !.messageType = NET_MESSAGE_GAME_PACKET,
                         !.packetType = type,
                         !.netId = ReadInt32LE(buffer, 8),
                         !.targetNetId = ReadInt32LE(buffer, 12),
                         !.state = ReadUInt32LE(buffer, 16),
                         !.info = ReadInt32LE(buffer, 24),
                         !.dataSize = dataSize,
                         !.extra = extra,
                         !.header = Slice(buffer, 0, TankHeaderLen),
                         !.packetId = packetId,
                         !.hasVariantArgs = (type = GAME_PACKET_CALL_FUNCTION),
                         !.variantArgs = variantArgs]

ParsePacket(rawBuffer) ==
  IF Len(rawBuffer) < 4 THEN RawPacket
  ELSE
    LET messageType == ReadUInt32LE(rawBuffer, 0) IN
    IF messageType \in {NET_MESSAGE_SERVER_HELLO, NET_MESSAGE_GENERIC_TEXT,
                        NET_MESSAGE_GAME_MESSAGE}
    THEN ParseTextPacket(rawBuffer)
    ELSE IF messageType = NET_MESSAGE_GAME_PACKET THEN ParseTankPacket(rawBuffer)
    ELSE RawPacket

\* Buffer.alloc(4 + text.length + 1): the last byte stays 0
\* a builder that ends the frame with the text, without the byte left 0
BuildTextPacketBare(messageType, rawText) ==
  WriteUInt32LE(messageType) \o Utf8Encode(rawText)

BuildTextPacket(messageType, rawText) ==
  WriteUInt32LE(messageType) \o Utf8Encode(rawText) \o <<0>>

ZeroHeader == [i \in 1..TankHeaderLen |-> 0]

\* bytes written at the 0-based offset pos of buf
SetBytes(buf, pos, bytes) ==
  [i \in 1..Len(buf) |->
     IF i > pos /\ i <= pos + Len(bytes) THEN bytes[i - pos] ELSE buf[i]]

\* a builder that leaves the size field of the header as it came
BuildTankPacketSizeKept(header, packetType, netId, targetNetId, state, info, extra) ==
  (IF header = <<>> THEN ZeroHeader
   ELSE SetBytes(Slice(header, 0, TankHeaderLen), 0,
                 WriteUInt32LE(NET_MESSAGE_GAME_PACKET))) \o extra

BuildTankPacket(header, packetType, netId, targetNetId, state, info, extra) ==
  LET h0 == IF header = <<>> THEN ZeroHeader ELSE header
      h1 == SetBytes(h0, 0, WriteUInt32LE(NET_MESSAGE_GAME_PACKET))
      h2 == SetBytes(h1, 4, <<packetType % 256>>)
      h3 == SetBytes(h2, 8, WriteInt32LE(netId))
      h4 == SetBytes(h3, 12, WriteInt32LE(targetNetId))
      h5 == SetBytes(h4, 16, WriteUInt32LE(state))
      h6 == SetBytes(h5, 24, WriteInt32LE(info))
      h7 == SetBytes(h6, 56, WriteUInt32LE(Len(extra)))
  IN Slice(h7, 0, TankHeaderLen) \o extra

IsDigits(s) == \A i \in 1..Len(s) : s[i] >= 48 /\ s[i] <= 57

RECURSIVE DecimalValue(_, _)
DecimalValue(s, acc) ==
  IF s = <<>> THEN acc ELSE DecimalValue(Tail(s), 10 * acc + (Head(s) - 48))

\* Number(value) || 0 for an undefined, an integer, or a string of decimal
\* digits or of no number at all (NaN gives 0); the frames of the model
\* carry no float or vector where the code converts to a number
NumberOrZero(value) ==
  CASE value.t = "num" -> value.v[1]
    [] value.t = "undef" -> 0
    [] value.t = "str" -> IF IsDigits(value.v) THEN DecimalValue(value.v, 0) ELSE 0

\* parseOnSendToServer: the fields the relay uses
ParseOnSendToServer(variantArgs) ==
  IF Len(variantArgs) < 5 THEN [ok |-> FALSE, port |-> 0, address |-> <<>>]
  ELSE
    LET rawText == IF IsStr(variantArgs[5]) THEN variantArgs[5].v ELSE <<>> IN
    [ok |-> TRUE,
     port |-> NumberOrZero(variantArgs[2]),
     address |-> SplitOn(rawText, ChPipe[1])[1]]

(***************************************************************************)
(* commandRegistry.js                                                      *)
(***************************************************************************)
\* the configured command prefix (config.command.prefix, one character)
Prefix == ChSlash

IsControl(c) == c >= 0 /\ c <= 31

\* WhiteSpace and LineTerminator of ECMAScript: what trim, trimStart and
\* the regular expression \s take
IsWhiteSpace(c) ==
  c \in {9, 10, 11, 12, 13, 32, 160, 5760, 8232, 8233, 8239, 8287, 12288, 65279}
  \/ (c >= 8192 /\ c <= 8202)

RECURSIVE RemoveControl(_)
RemoveControl(text) ==
  IF text = <<>> THEN <<>>
  ELSE IF IsControl(Head(text)) THEN RemoveControl(Tail(text))
  ELSE <<Head(text)>> \o RemoveControl(Tail(text))

RECURSIVE TrimStart(_)
TrimStart(text) ==
  IF text = <<>> THEN <<>>
  ELSE IF IsWhiteSpace(Head(text)) THEN TrimStart(Tail(text))
  ELSE text

RECURSIVE TrimEnd(_)
TrimEnd(text) ==
  IF text = <<>> THEN <<>>
  ELSE IF IsWhiteSpace(text[Len(text)]) THEN TrimEnd(SubSeq(text, 1, Len(text) - 1))
  ELSE text

Trim(text) == TrimEnd(TrimStart(text))

\* remove U+0000..U+001F, then one leading U+FEFF, then trimStart()
NormalizeInput(text) ==
  LET noControl == RemoveControl(text)
      noBom == IF noControl # <<>> /\ Head(noControl) = 65279
               THEN Tail(noControl) ELSE noControl
  IN TrimStart(noBom)

\* String.prototype.toLowerCase on the characters of the model
ToLowerChar(c) == IF c >= 65 /\ c <= 90 THEN c + 32 ELSE c

ToLower(text) == [i \in 1..Len(text) |-> ToLowerChar(text[i])]

\* the character class [a-z0-9_-]
IsNameChar(c) ==
  (c >= 97 /\ c <= 122) \/ (c >= 48 /\ c <= 57) \/ c = 95 \/ c = 45

\* clean.split(/\s+/g) of a trimmed, non-empty text
RECURSIVE SplitWhiteSpace(_, _)
SplitWhiteSpace(text, current) ==
  IF text = <<>> THEN <<current>>
  ELSE IF IsWhiteSpace(Head(text))
       THEN <<current>> \o SplitWhiteSpace(TrimStart(text), <<>>)
       ELSE SplitWhiteSpace(Tail(text), Append(current, Head(text)))

\* a match of the whole token, /^[a-z0-9_-]+$/
WholeTokenName(text) ==
  IF \A i \in 1..Len(text) : IsNameChar(text[i]) THEN text ELSE <<>>

\* rawName.match(/^[a-z0-9_-]+/): the leading run of name characters
RECURSIVE LeadingName(_)
LeadingName(text) ==
  IF text = <<>> \/ ~IsNameChar(Head(text)) THEN <<>>
  ELSE <<Head(text)>> \o LeadingName(Tail(text))

NoCommand == [ok |-> FALSE, name |-> <<>>, args |-> <<>>]

\* a parse that drops the first character without comparing it to the prefix
ParseCommandAnyPrefix(text) ==
  LET normalized == NormalizeInput(text)
      clean == Trim(Slice(normalized, Len(Prefix), Len(normalized)))
  IN IF clean = <<>> THEN NoCommand
     ELSE LET tokens == SplitWhiteSpace(clean, <<>>)
              name == LeadingName(ToLower(tokens[1]))
          IN IF name = <<>> THEN NoCommand
             ELSE [ok |-> TRUE, name |-> name, args |-> Tail(tokens)]

\* CommandRegistry.parse
ParseCommand(text) ==
  LET normalized == NormalizeInput(text) IN
  IF ~StartsWith(normalized, Prefix) THEN NoCommand
  ELSE
    LET clean == Trim(Slice(normalized, Len(Prefix), Len(normalized))) IN
    IF clean = <<>> THEN NoCommand
    ELSE
      LET tokens == SplitWhiteSpace(clean, <<>>)
          name == LeadingName(ToLower(tokens[1]))
      IN IF name = <<>> THEN NoCommand
         ELSE [ok |-> TRUE, name |-> name, args |-> Tail(tokens)]

\* CommandRegistry.get on the registered keys
IsRegistered(cmds, name) == ToLower(Trim(name)) \in cmds

\* a command a script registers with a handler that throws
StrBoom == <<98, 111, 111, 109>>

\* whether the handler registered under the name throws
Throws(name) == name = StrBoom

\* an execute without the catch: the exception of the handler takes the
\* place of the return value
ExecuteRethrowing(cmds, text) ==
  LET parsed == ParseCommand(text) IN
  IF ~parsed.ok THEN [ran |-> FALSE, name |-> <<>>, args |-> <<>>]
  ELSE IF ~IsRegistered(cmds, parsed.name) THEN [ran |-> FALSE, name |-> <<>>, args |-> <<>>]
  ELSE IF Throws(parsed.name) THEN [ran |-> FALSE, name |-> parsed.name, args |-> parsed.args]
  ELSE [ran |-> TRUE, name |-> parsed.name, args |-> parsed.args]

\* CommandRegistry.execute: whether a handler ran, and which; the catch
\* around the handler makes a handler that throws count as run
Execute(cmds, text) ==
  LET parsed == ParseCommand(text) IN
  IF ~parsed.ok THEN [ran |-> FALSE, name |-> <<>>, args |-> <<>>]
  ELSE IF ~IsRegistered(cmds, parsed.name) THEN [ran |-> FALSE, name |-> <<>>, args |-> <<>>]
  ELSE [ran |-> TRUE, name |-> parsed.name, args |-> parsed.args]

(***************************************************************************)
(* worldState.js                                                           *)
(***************************************************************************)
\* players is the Map as the set of its payloads, one per net-id
StrLocal == <<108, 111, 99, 97, 108>>

WorldClear == [players |-> {}, localNetId |-> -1]

MapSet(m, payload) == {q \in m : q.netId # payload.netId} \cup {payload}

MapDelete(m, netId) == {q \in m : q.netId # netId}

WorldOnSpawn(w, payload) ==
  IF payload.netId < 0 THEN w
  ELSE [players |-> MapSet(w.players, payload),
        localNetId |-> IF payload.type = StrLocal THEN payload.netId ELSE w.localNetId]

\* a removal that leaves localNetId as it is
WorldOnRemoveKeepingLocal(w, netId) ==
  IF netId < 0 THEN w ELSE [w EXCEPT !.players = MapDelete(w.players, netId)]

WorldOnRemove(w, netId) ==
  IF netId < 0 THEN w
  ELSE [players |-> MapDelete(w.players, netId),
        localNetId |-> IF w.localNetId = netId THEN -1 ELSE w.localNetId]

(***************************************************************************)
(* State after construction (ProxyCore constructor, proxyCore.js 167-217)  *)
(***************************************************************************)
StrProxyhelp == <<112, 114, 111, 120, 121, 104, 101, 108, 112>>
StrExit == <<101, 120, 105, 116>>
StrProxy == <<112, 114, 111, 120, 121>>
StrWarp == <<119, 97, 114, 112>>
StrNick == <<110, 105, 99, 107>>
StrSkin == <<115, 107, 105, 110>>

\* registerBuiltinCommands and scripts/coreCommands.js
RepositoryCommands == {StrProxyhelp, StrExit, StrProxy, StrWarp, StrNick, StrSkin}

HistZero ==
  [connectRuns |-> 0, retriesScheduled |-> 0, connectCalls |-> 0,
   arrivals |-> [serverBound |-> 0, clientBound |-> 0], wire |-> <<>>,
   calls |-> <<>>, events |-> <<>>]

RelayInit ==
  /\ phase = "constructed"
  /\ clientPeer = NoPeer
  /\ serverPeer = NoPeer
  /\ pendingAddress = <<>>
  /\ pendingPort = NoPort
  /\ upstreamRetryTimer = FALSE
  /\ upstreamRetryCount = 0
  /\ proxyClientListening = FALSE
  /\ tasksByTag = {}
  /\ timers = {}
  /\ exitTimer = FALSE
  /\ inConn = "free"
  /\ outConns = [n \in 0..(MaxOutPeers - 1) |-> "free"]
  /\ hist = HistZero

(***************************************************************************)
(* proxyCore.js: the relay.  A handler is a function from the state record *)
(* (the fields of ProxyCore and of the transport) to the state record; an  *)
(* action commits the record its handler returns.                          *)
(***************************************************************************)
Cur ==
  [phase |-> phase, clientPeer |-> clientPeer, serverPeer |-> serverPeer,
   pendingAddress |-> pendingAddress, pendingPort |-> pendingPort,
   upstreamRetryTimer |-> upstreamRetryTimer,
   upstreamRetryCount |-> upstreamRetryCount,
   proxyClientListening |-> proxyClientListening, world |-> world,
   tasksByTag |-> tasksByTag, timers |-> timers, exitTimer |-> exitTimer,
   inConn |-> inConn,
   outConns |-> outConns, hist |-> hist,
   track |-> (scenario = "retry"), toClient |-> <<>>, toServer |-> <<>>,
   requests |-> <<>>, initiated |-> FALSE, targets |-> <<>>, connects |-> 0,
   delays |-> <<>>]

Commit(st) ==
  /\ phase' = st.phase
  /\ clientPeer' = st.clientPeer
  /\ serverPeer' = st.serverPeer
  /\ pendingAddress' = st.pendingAddress
  /\ pendingPort' = st.pendingPort
  /\ upstreamRetryTimer' = st.upstreamRetryTimer
  /\ upstreamRetryCount' = st.upstreamRetryCount
  /\ proxyClientListening' = st.proxyClientListening
  /\ world' = st.world
  /\ tasksByTag' = st.tasksByTag
  /\ timers' = st.timers
  /\ exitTimer' = st.exitTimer
  /\ inConn' = st.inConn
  /\ outConns' = st.outConns
  /\ hist' = st.hist

IsInRangePort(port) == port > 0 /\ port <= 65535

\* a validity test that takes a blank address for an address
HasAddressAndPort(address, port) == address # <<>> /\ IsInRangePort(port)

HasPendingEndpoint(address, port) == Trim(address) # <<>> /\ IsInRangePort(port)

RECURSIVE RemoveNul(_)
RemoveNul(text) ==
  IF text = <<>> THEN <<>>
  ELSE IF Head(text) = 0 THEN RemoveNul(Tail(text))
  ELSE <<Head(text)>> \o RemoveNul(Tail(text))

\* Peer.disconnect(mode) on the inbound peer: "now" resets the slot at
\* once, "later" and "normal" close it and the disconnect event follows
DisconnectClientPeer(st, mode) ==
  LET closed == IF mode = "now" THEN "free"
                ELSE IF st.inConn = "connected" THEN "closing" ELSE st.inConn
  IN [st EXCEPT !.inConn = closed,
                !.requests = Append(@, [peer |-> "client", mode |-> mode])]

\* a disconnect of the outbound peer that is always the graceful one
DisconnectServerPeerLater(st, mode) ==
  LET n == st.serverPeer
  IN [st EXCEPT !.outConns[n] = IF @ = "connected" THEN "closing" ELSE @,
                !.requests = Append(@, [peer |-> "server", mode |-> "later"])]

\* Peer.disconnect(mode) on the outbound peer this.serverPeer
DisconnectServerPeer(st, mode) ==
  LET n == st.serverPeer
      closed == IF mode = "now" THEN "free"
                ELSE IF st.outConns[n] = "connected" THEN "closing" ELSE st.outConns[n]
  IN [st EXCEPT !.outConns[n] = closed,
                !.requests = Append(@, [peer |-> "server", mode |-> mode])]

\* a clearing that leaves the retry counter
ClearTimerOnly(st) == [st EXCEPT !.upstreamRetryTimer = FALSE]

ClearUpstreamRetry(st) ==
  [st EXCEPT !.upstreamRetryTimer = FALSE, !.upstreamRetryCount = 0]

\* a delay that does not grow with the attempts
DelayFlat(count) == 3000

\* delayMs of scheduleUpstreamRetry
DelayMs(count) == IF 250 * count < 3000 THEN 250 * count ELSE 3000

\* a retry scheduler without the budget
ScheduleWithoutBudget(st) ==
  IF st.clientPeer = NoPeer \/ st.pendingAddress = <<>> \/ ~IsInRangePort(st.pendingPort)
  THEN st
  ELSE IF st.upstreamRetryTimer THEN st
  ELSE [st EXCEPT !.upstreamRetryCount = @ + 1,
                  !.upstreamRetryTimer = TRUE,
                  !.delays = Append(@, DelayMs(st.upstreamRetryCount + 1)),
                  !.hist.retriesScheduled = IF st.track THEN @ + 1 ELSE @]

ScheduleUpstreamRetry(st) ==
  IF st.clientPeer = NoPeer \/ st.pendingAddress = <<>> \/ ~IsInRangePort(st.pendingPort)
  THEN st
  ELSE IF st.upstreamRetryTimer THEN st
  ELSE IF st.upstreamRetryCount + 1 > RetryBudget
  THEN [st EXCEPT !.upstreamRetryCount = @ + 1]
  ELSE [st EXCEPT !.upstreamRetryCount = @ + 1,
                  !.upstreamRetryTimer = TRUE,
                  !.delays = Append(@, DelayMs(st.upstreamRetryCount + 1)),
                  !.hist.retriesScheduled = IF st.track THEN @ + 1 ELSE @]

FreeSlots(conns) == {n \in DOMAIN conns : conns[n] = "free"}

Lowest(S) == CHOOSE n \in S : \A m \in S : n <= m

\* this.proxyClient.connect(address, port): the transport takes the first
\* free peer slot, or fails; accept is the transport's own verdict
TransportConnect(st, accept) ==
  LET free == FreeSlots(st.outConns)
      ok == accept /\ free # {}
      counted == [st EXCEPT !.hist.connectCalls = IF st.track THEN @ + 1 ELSE @,
                            !.connects = @ + 1]
  IN [ok |-> ok,
      st |-> IF ok THEN [counted EXCEPT !.outConns[Lowest(free)] = "connecting"]
             ELSE counted]

\* cleanupProxyClientPeers: every slot that is not idle is reset;
\* hasGetPeer is whether the native host exposes getPeer
CleanupProxyClientPeers(st, hasGetPeer) ==
  IF ~hasGetPeer THEN [resetCount |-> 0, st |-> st]
  ELSE [resetCount |-> Cardinality({n \in DOMAIN st.outConns : st.outConns[n] # "free"}),
        st |-> [st EXCEPT !.outConns = [n \in DOMAIN st.outConns |-> "free"]]]

\* an initiation that leaves the pending endpoint in place
ConnectInitiatedKeeping(st) == [ClearUpstreamRetry(st) EXCEPT !.initiated = TRUE]

ConnectInitiated(st) ==
  [ClearUpstreamRetry(st) EXCEPT !.pendingAddress = <<>>, !.pendingPort = NoPort,
                                 !.initiated = TRUE]

\* connectPendingServer; env holds what the transport answers:
\* accept1, accept2 (the connect calls) and hasGetPeer
ConnectPendingServer(st0, env) ==
  LET st == [st0 EXCEPT !.hist.connectRuns = IF st0.track THEN @ + 1 ELSE @,
                        !.targets = Append(@, [address |-> st0.pendingAddress,
                                               port |-> st0.pendingPort,
                                               hadServer |-> st0.serverPeer # NoPeer])]
      cleanedAddress == Trim(RemoveNul(st.pendingAddress))
  IN
  IF cleanedAddress = <<>> \/ ~IsInRangePort(st.pendingPort) THEN st
  ELSE
    LET st1 == [st EXCEPT !.pendingAddress = cleanedAddress] IN
    IF st1.serverPeer # NoPeer
    THEN ScheduleUpstreamRetry([DisconnectServerPeer(st1, "now") EXCEPT !.serverPeer = NoPeer])
    ELSE
      LET st2 == [st1 EXCEPT !.proxyClientListening = TRUE]
          first == TransportConnect(st2, env.accept1)
      IN
      IF first.ok THEN ConnectInitiated(first.st)
      ELSE
        LET cleaned == CleanupProxyClientPeers(first.st, env.hasGetPeer) IN
        IF cleaned.resetCount > 0
        THEN LET second == TransportConnect(cleaned.st, env.accept2) IN
             IF second.ok THEN ConnectInitiated(second.st)
             ELSE ScheduleUpstreamRetry(second.st)
        ELSE ScheduleUpstreamRetry(cleaned.st)

\* what the transport may answer; in the scenario where every connect call
\* fails it refuses each time
ConnectEnvs ==
  IF scenario \in {"drop", "slots"}
  THEN { [accept1 |-> TRUE, accept2 |-> TRUE, hasGetPeer |-> TRUE],
         [accept1 |-> FALSE, accept2 |-> TRUE, hasGetPeer |-> TRUE],
         [accept1 |-> FALSE, accept2 |-> FALSE, hasGetPeer |-> TRUE],
         [accept1 |-> FALSE, accept2 |-> FALSE, hasGetPeer |-> FALSE] }
  ELSE IF scenario = "retry"
  THEN [accept1 : {FALSE}, accept2 : {FALSE}, hasGetPeer : BOOLEAN]
  ELSE IF scenario \in {"inbound", "outbound", "teardown", "order", "hooks", "frames", "raw",
                        "faulty", "gap"}
  THEN [accept1 : {TRUE}, accept2 : {TRUE}, hasGetPeer : {TRUE}]
  ELSE [accept1 : BOOLEAN, accept2 : BOOLEAN, hasGetPeer : BOOLEAN]

(***************************************************************************)
(* proxyCore.js: injection API, stop(), and the command handlers of        *)
(* builtinCommands.js and scripts/coreCommands.js                          *)
(***************************************************************************)
SendToClient(st, buffer, channelId) ==
  IF st.clientPeer = NoPeer THEN st
  ELSE [st EXCEPT !.toClient = Append(@, [channelId |-> channelId, frame |-> buffer])]

\* a send that does not look whether there is an outbound peer
SendToServerUnguarded(st, buffer, channelId) ==
  [st EXCEPT !.toServer = Append(@, [channelId |-> channelId, frame |-> buffer])]

SendToServer(st, buffer, channelId) ==
  IF st.serverPeer = NoPeer THEN st
  ELSE [st EXCEPT !.toServer = Append(@, [channelId |-> channelId, frame |-> buffer])]

StrMsg == <<109, 115, 103>>
StrName == <<110, 97, 109, 101>>
StrInvitedWorld == <<105, 110, 118, 105, 116, 101, 100, 87, 111, 114, 108, 100>>

\* sendLog(message): action|log and msg|<message>
SendLog(st, message) ==
  SendToClient(st,
    BuildTextPacket(NET_MESSAGE_GAME_MESSAGE,
      StrAction \o ChPipe \o StrLog \o ChNewline \o StrMsg \o ChPipe \o message), 0)

SendQuitToExit(st) ==
  SendToServer(st,
    BuildTextPacket(NET_MESSAGE_GAME_MESSAGE, StrAction \o ChPipe \o StrQuitToExit), 0)

SendJoinRequest(st, worldName) ==
  SendToServer(st,
    BuildTextPacket(NET_MESSAGE_GAME_MESSAGE,
      StrAction \o ChPipe \o StrJoinRequest \o ChNewline
        \o StrName \o ChPipe \o worldName \o ChNewline
        \o StrInvitedWorld \o ChPipe \o <<48>>), 0)

\* sendVariantToClient(functionName, args, {netId, targetNetId, delay, channelId})
VariantFrameToClient(functionName, args, netId, targetNetId, delay) ==
  EnsureNullTerminator(
    BuildTankPacket(<<>>, GAME_PACKET_CALL_FUNCTION, netId, targetNetId, 8, delay,
                    EncodeVariantArgs(<<Str(functionName)>> \o args)))

SendVariantToClient(st, functionName, args, netId, targetNetId, delay, channelId) ==
  SendToClient(st, VariantFrameToClient(functionName, args, netId, targetNetId, delay),
               channelId)

(***************************************************************************)
(* taskScheduler.js.  A timeout is a record [id, tag, cb]; tasksByTag maps *)
(* a tag to the id of a timeout.                                           *)
(***************************************************************************)
\* setTimeout returns a handle no pending timeout and no Map entry holds
NewTimeoutId(st) ==
  CHOOSE id \in 0..(Cardinality(st.timers) + Cardinality(st.tasksByTag)) :
    /\ \A t \in st.timers : t.id # id
    /\ \A e \in st.tasksByTag : e.id # id

\* a cancelByTag that leaves the timeout pending and only forgets the tag
ForgetTag(st, tag) == [st EXCEPT !.tasksByTag = {e \in @ : e.tag # tag}]

\* cancelByTag(tag): clearTimeout on the timeout the Map holds for the tag
CancelByTag(st, tag) ==
  LET held == {e.id : e \in {x \in st.tasksByTag : x.tag = tag}} IN
  IF held = {} THEN st
  ELSE [st EXCEPT !.timers = {t \in @ : t.id \notin held},
                  !.tasksByTag = {e \in @ : e.tag # tag}]

\* scheduleDelayed(callback, delayMs, tag): the delay is left out, a pending
\* timeout may fire at any time
ScheduleDelayed(st, cb, tag) ==
  LET s1 == IF tag # "" THEN CancelByTag(st, tag) ELSE st
      timeoutId == NewTimeoutId(s1)
  IN [s1 EXCEPT !.timers = @ \cup {[id |-> timeoutId, tag |-> tag, cb |-> cb]},
                !.tasksByTag = IF tag # ""
                               THEN {e \in @ : e.tag # tag}
                                      \cup {[tag |-> tag, id |-> timeoutId]}
                               ELSE @]

\* cancelAll(): clearTimeout on every timeout the Map holds, then clear()
CancelAll(st) ==
  [st EXCEPT !.timers = {t \in @ : \A e \in st.tasksByTag : e.id # t.id},
             !.tasksByTag = {}]

\* the timeout callback of scheduleDelayed, up to the call of callback()
TimerFired(st, timer) ==
  [st EXCEPT !.timers = @ \ {timer},
             !.tasksByTag = IF timer.tag # "" THEN {e \in @ : e.tag # timer.tag} ELSE @]

\* a stop that leaves the retry timeout pending
StopKeepingTimer(st) ==
  IF st.phase # "running" THEN st
  ELSE
    LET s1 == CancelAll([st EXCEPT !.phase = "stopped"])
        s2 == IF s1.clientPeer # NoPeer
              THEN [DisconnectClientPeer(s1, "now") EXCEPT !.clientPeer = NoPeer]
              ELSE s1
    IN IF s2.serverPeer # NoPeer
       THEN [DisconnectServerPeer(s2, "now") EXCEPT !.serverPeer = NoPeer]
       ELSE s2

\* stop()
StopProxy(st) ==
  IF st.phase # "running" THEN st
  ELSE
    LET s1 == ClearUpstreamRetry(CancelAll([st EXCEPT !.phase = "stopped"]))
        s2 == IF s1.clientPeer # NoPeer
              THEN [DisconnectClientPeer(s1, "now") EXCEPT !.clientPeer = NoPeer]
              ELSE s1
    IN IF s2.serverPeer # NoPeer
       THEN [DisconnectServerPeer(s2, "now") EXCEPT !.serverPeer = NoPeer]
       ELSE s2

\* the log texts of the handlers, abbreviated to one letter each
MsgHelp == <<104>>
MsgError == <<101>>
MsgUsage == <<117>>
MsgDone == <<100>>

RECURSIVE SendLogs(_, _, _)
SendLogs(st, message, times) ==
  IF times = 0 THEN st ELSE SendLogs(SendLog(st, message), message, times - 1)

DigitValue(c) ==
  IF c >= 48 /\ c <= 57 THEN c - 48
  ELSE IF c >= 97 /\ c <= 102 THEN c - 87
  ELSE IF c >= 65 /\ c <= 70 THEN c - 55
  ELSE 99

RECURSIVE ParseDigits(_, _, _, _)
ParseDigits(text, radix, acc, seen) ==
  IF text = <<>> \/ DigitValue(Head(text)) >= radix
  THEN [seen |-> seen, value |-> acc]
  ELSE ParseDigits(Tail(text), radix, radix * acc + DigitValue(Head(text)), TRUE)

\* Number.parseInt(text, radix) for radix 10 or 16: [nan, negative, value]
ParseInt(text, radix) ==
  LET t == TrimStart(text)
      negative == t # <<>> /\ Head(t) = 45
      unsigned == IF t # <<>> /\ Head(t) \in {43, 45} THEN Tail(t) ELSE t
      body == IF radix = 16 /\ Len(unsigned) >= 2 /\ unsigned[1] = 48
                 /\ unsigned[2] \in {88, 120}
              THEN Tail(Tail(unsigned)) ELSE unsigned
      digits == ParseDigits(body, radix, 0, FALSE)
  IN [nan |-> ~digits.seen, negative |-> negative /\ digits.value > 0,
      value |-> digits.value]

RECURSIVE JoinWithSpace(_)
JoinWithSpace(tokens) ==
  IF tokens = <<>> THEN <<>>
  ELSE IF Len(tokens) = 1 THEN tokens[1]
  ELSE tokens[1] \o <<32>> \o JoinWithSpace(Tail(tokens))

StrHex == <<104, 101, 120>>

\* the handler registered under name, run with ctx.args = args
RunHandler(st, cmds, name, args) ==
  CASE name = StrProxyhelp ->
         IF args = <<>> THEN SendLogs(st, MsgHelp, 1 + Cardinality(cmds))
         ELSE IF IsRegistered(cmds, ToLower(args[1])) THEN SendLog(st, MsgHelp)
         ELSE SendLog(st, MsgError)
    [] name = StrExit ->
         [StopProxy(SendLog(st, MsgDone)) EXCEPT !.exitTimer = TRUE]
    [] name = StrProxy -> SendLog(st, MsgDone)
    [] name = StrWarp ->
         IF args = <<>> \/ args[1] = <<>> THEN SendLog(st, MsgUsage)
         ELSE IF ToLower(args[1]) = StrExit \/ Len(args[1]) > 23 THEN SendLog(st, MsgError)
         ELSE
           ScheduleDelayed(SendLog(SendQuitToExit(CancelByTag(st, "warp")), MsgDone),
                           [kind |-> "warp", worldName |-> args[1]], "warp")
    [] name = StrNick ->
         IF args = <<>> THEN SendLog(st, MsgUsage)
         ELSE SendLog(
                SendVariantToClient(st, StrOnNameChanged, <<Str(JoinWithSpace(args))>>,
                                    st.world.localNetId, 0, 0, 0),
                MsgDone)
    [] name = StrSkin ->
         IF args = <<>> THEN SendLog(st, MsgUsage)
         ELSE
           LET isHex == ToLower(args[1]) = StrHex /\ Len(args) > 1
               value == IF isHex THEN args[2] ELSE args[1]
               parsed == ParseInt(value, IF isHex THEN 16 ELSE 10)
           IN IF parsed.nan \/ parsed.negative THEN SendLog(st, MsgError)
              ELSE SendLog(
                     SendVariantToClient(st, StrOnChangeSkin, <<Num(parsed.value)>>,
                                         st.world.localNetId, 0, 0, 0),
                     MsgDone)
    [] name = StrBoom -> SendLog(st, MsgDone)
    [] OTHER -> st

(***************************************************************************)
(* proxyCore.js: the hook bus and the two packet handlers                  *)
(***************************************************************************)
\* the frame a mutating subscriber puts in context.raw
HookFrame == <<2, 0, 0, 0, 104>>

\* an emit that goes on to the next subscriber after one has thrown
RunEverySubscriber(context, hooks) ==
  IF hooks = <<>> THEN context
  ELSE [raw |-> IF \E i \in 1..Len(hooks) : hooks[i] = "mutate" THEN HookFrame
                ELSE context.raw,
        canceled |-> IF \E i \in 1..Len(hooks) : hooks[i] \in {"cancel", "uncancel"}
                     THEN hooks[CHOOSE i \in 1..Len(hooks) :
                                  /\ hooks[i] \in {"cancel", "uncancel"}
                                  /\ \A j \in (i + 1)..Len(hooks) :
                                       hooks[j] \notin {"cancel", "uncancel"}] = "cancel"
                     ELSE context.canceled,
        invoked |-> context.invoked + Len(hooks)]

\* EventEmitter.emit inside emitScriptEvent's try: the subscribers run in
\* registration order and an exception ends the emit
RECURSIVE RunSubscribers(_, _)
RunSubscribers(context, hooks) ==
  IF hooks = <<>> THEN context
  ELSE
    LET h == Head(hooks)
        ran == [context EXCEPT !.invoked = @ + 1]
    IN
    CASE h = "throw" -> ran
      [] h = "cancel" -> RunSubscribers([ran EXCEPT !.canceled = TRUE], Tail(hooks))
      [] h = "uncancel" -> RunSubscribers([ran EXCEPT !.canceled = FALSE], Tail(hooks))
      [] h = "mutate" -> RunSubscribers([ran EXCEPT !.raw = HookFrame], Tail(hooks))
      [] OTHER -> RunSubscribers(ran, Tail(hooks))

\* source.replace(/\r\n/g, "\n")
RECURSIVE CrLfToLf(_)
CrLfToLf(text) ==
  IF text = <<>> THEN <<>>
  ELSE IF Len(text) >= 2 /\ text[1] = 13 /\ text[2] = 10
       THEN <<10>> \o CrLfToLf(Tail(Tail(text)))
  ELSE <<Head(text)>> \o CrLfToLf(Tail(text))

RECURSIVE FallbackFromLines(_)
FallbackFromLines(lines) ==
  IF lines = <<>> THEN <<>>
  ELSE
    LET trimmed == Trim(Head(lines)) IN
    IF trimmed = <<>> THEN FallbackFromLines(Tail(lines))
    ELSE IF StartsWith(trimmed, StrTextPipe)
         THEN Slice(trimmed, Len(StrTextPipe), Len(trimmed))
    ELSE IF StartsWith(trimmed, StrPipeTextPipe)
         THEN Slice(trimmed, Len(StrPipeTextPipe), Len(trimmed))
    ELSE FallbackFromLines(Tail(lines))

ExtractInputTextFallback(rawText) ==
  IF rawText = <<>> THEN <<>>
  ELSE FallbackFromLines(SplitOn(CrLfToLf(rawText), ChNewline[1]))

\* the text value alone, without the fallback line parser
DirectTextOnly(parsed) ==
  IF parsed.inputText # <<>> THEN <<parsed.inputText>> ELSE <<>>

\* the candidates of an Input frame, in the insertion order of the Set
InputCandidates(parsed) ==
  LET directText == parsed.inputText
      fallbackText == ExtractInputTextFallback(parsed.text)
      first == IF directText # <<>> THEN <<directText>> ELSE <<>>
  IN IF fallbackText # <<>> /\ (first = <<>> \/ first[1] # fallbackText)
     THEN Append(first, fallbackText) ELSE first

\* the loop over the candidates: the first one that executes, if any
RECURSIVE FirstExecuted(_, _)
FirstExecuted(cmds, candidates) ==
  IF candidates = <<>> THEN [ran |-> FALSE, name |-> <<>>, args |-> <<>>, text |-> <<>>]
  ELSE
    LET r == Execute(cmds, Head(candidates)) IN
    IF r.ran THEN [ran |-> TRUE, name |-> r.name, args |-> r.args, text |-> Head(candidates)]
    ELSE FirstExecuted(cmds, Tail(candidates))

NoDispatch == [ran |-> FALSE, name |-> <<>>, args |-> <<>>, text |-> <<>>]

\* handleServerBoundPacket, the Quit and Disconnect branches: both peers are
\* asked to disconnect, the outbound one at once; serverPeer keeps its value
ServerBoundTeardown(st, packetId) ==
  IF packetId \notin {"Quit", "Disconnect"} THEN st
  ELSE LET a == IF st.clientPeer # NoPeer
                THEN DisconnectClientPeer(st, IF packetId = "Quit" THEN "normal" ELSE "now")
                ELSE st
       IN IF a.serverPeer # NoPeer THEN DisconnectServerPeer(a, "now") ELSE a

\* handleServerBoundPacket, after the emit: nothing is sent if the context
\* is canceled, else sendToServer(context.raw, channelId) sends if there is
\* an outbound peer
ForwardToServer(st, context, channelId) ==
  IF context.canceled THEN <<>>
  ELSE SendToServer([st EXCEPT !.toServer = <<>>], context.raw, channelId).toServer

\* handleServerBoundPacket, its end: the forward decision and the report of
\* what the handler did
ServerBoundOutcome(st, parsed, dispatch, context, channelId, rawData, hooks) ==
  [st |-> st,
   report |-> [op |-> "serverBound", channelId |-> channelId, frame |-> rawData,
               packetId |-> parsed.packetId, kind |-> parsed.kind,
               dispatch |-> dispatch,
               intercepted |-> dispatch.ran \/ parsed.packetId \in {"Quit", "Disconnect"},
               hooks |-> hooks,
               invoked |-> context.invoked, canceled |-> context.canceled,
               raw |-> context.raw, hadPeer |-> st.serverPeer # NoPeer,
               sent |-> ForwardToServer(st, context, channelId),
               forwarded |-> ForwardToServer(st, context, channelId) # <<>>,
               injectedToClient |-> st.toClient, injectedToServer |-> st.toServer,
               requests |-> st.requests]]

\* handleServerBoundPacket once the candidates of an Input frame were tried:
\* the handler that took the frame runs, Quit and Disconnect tear down, and
\* the subscribers see the frame with canceled set if it was intercepted
ServerBoundDispatched(st, cmds, channelId, rawData, hooks, parsed, dispatch) ==
  ServerBoundOutcome(
    ServerBoundTeardown(
      IF dispatch.ran THEN RunHandler(st, cmds, dispatch.name, dispatch.args) ELSE st,
      parsed.packetId),
    parsed, dispatch,
    RunSubscribers([raw |-> rawData,
                    canceled |-> dispatch.ran \/ parsed.packetId \in {"Quit", "Disconnect"},
                    invoked |-> 0], hooks),
    channelId, rawData, hooks)

\* handleServerBoundPacket once the frame is parsed: JoinRequest clears the
\* world, an Input frame is offered to the command registry
ServerBoundParsed(st, cmds, channelId, rawData, hooks, parsed) ==
  ServerBoundDispatched(
    IF parsed.packetId = "JoinRequest" THEN [st EXCEPT !.world = WorldClear] ELSE st,
    cmds, channelId, rawData, hooks, parsed,
    IF parsed.packetId = "Input"
    THEN FirstExecuted(cmds, InputCandidates(parsed)) ELSE NoDispatch)

\* handleServerBoundPacket(channelId, rawData): the state it leaves and a
\* report of what it did
HandleServerBoundPacket(st, cmds, channelId, rawData, hooks) ==
  ServerBoundParsed(st, cmds, channelId, rawData, hooks, ParsePacket(rawData))

StrNetID == <<110, 101, 116, 73, 68>>
StrUserID == <<117, 115, 101, 114, 73, 68>>
StrSpawn == <<115, 112, 97, 119, 110>>
StrType == <<116, 121, 112, 101>>

\* TextParse.getInt(key, index, fallback)
TextGetInt(entries, key, index, fallback) ==
  LET value == TextGet(entries, key, index) IN
  IF value = <<>> THEN fallback
  ELSE LET parsed == ParseInt(value, 10) IN
       IF parsed.nan THEN fallback
       ELSE IF parsed.negative THEN 0 - parsed.value ELSE parsed.value

ParseOnSpawn(variantArgs) ==
  IF Len(variantArgs) < 2 \/ ~IsStr(variantArgs[2])
  THEN [ok |-> FALSE, payload |-> [spawn |-> <<>>, netId |-> -1, userId |-> 0,
                                   name |-> <<>>, type |-> <<>>]]
  ELSE LET parser == TextParse(variantArgs[2].v) IN
       [ok |-> TRUE,
        payload |-> [spawn |-> TextGet(parser, StrSpawn, 0),
                     netId |-> TextGetInt(parser, StrNetID, 0, -1),
                     userId |-> TextGetInt(parser, StrUserID, 0, 0),
                     name |-> TextGet(parser, StrName, 0),
                     type |-> TextGet(parser, StrType, 0)]]

ParseOnRemove(variantArgs) ==
  IF Len(variantArgs) < 2 THEN [ok |-> FALSE, netId |-> -1]
  ELSE LET netData == IF IsStr(variantArgs[2]) THEN variantArgs[2].v ELSE <<>> IN
       [ok |-> TRUE, netId |-> TextGetInt(TextParse(netData), StrNetID, 0, -1)]

\* the rebuilt frame: the tank around the rewritten payload, with a
\* terminator if the received frame ended in NUL; the received frame if the
\* rewrite declined (modifiedExtra empty)
\* a rebuild that does not fall back to the received frame
RebuiltAlways(parsed, rawData, modifiedExtra) ==
  BuildTankPacket(parsed.header, GAME_PACKET_CALL_FUNCTION, parsed.netId,
                  parsed.targetNetId, parsed.state, parsed.info, modifiedExtra)

RebuiltFrame(parsed, rawData, modifiedExtra) ==
  IF modifiedExtra = <<>> THEN rawData
  ELSE IF Len(rawData) > 0 /\ rawData[Len(rawData)] = 0
  THEN EnsureNullTerminator(
         BuildTankPacket(parsed.header, GAME_PACKET_CALL_FUNCTION, parsed.netId,
                         parsed.targetNetId, parsed.state, parsed.info, modifiedExtra))
  ELSE BuildTankPacket(parsed.header, GAME_PACKET_CALL_FUNCTION, parsed.netId,
                       parsed.targetNetId, parsed.state, parsed.info, modifiedExtra)

\* the frame handleClientBoundPacket puts in context.raw for an accepted
\* OnSendToServer
RewrittenFrame(parsed, rawData) ==
  RebuiltFrame(parsed, rawData,
               RewriteOnSendToServerExtra(parsed.extra, StrLocalhost, ListenPort))

\* whether the handler, having accepted an OnSendToServer, connects at once
ConnectsAfterHandoff(st) == st.clientPeer # NoPeer /\ st.serverPeer = NoPeer

\* handleClientBoundPacket, the OnSendToServer branch: the decoded endpoint
\* becomes the pending endpoint, and the connect follows at once when the
\* game is there and no outbound peer is
ClientBoundHandoff(st, sendToServer, env) ==
  IF ~sendToServer.ok THEN st
  ELSE IF ConnectsAfterHandoff(st)
  THEN ConnectPendingServer([st EXCEPT !.pendingAddress = sendToServer.address,
                                       !.pendingPort = sendToServer.port], env)
  ELSE [st EXCEPT !.pendingAddress = sendToServer.address,
                  !.pendingPort = sendToServer.port]

\* handleClientBoundPacket, the OnSpawn and OnRemove branches
ClientBoundWorld(st, spawnData, removeData) ==
  LET spawned == IF spawnData.ok
                 THEN [st EXCEPT !.world = WorldOnSpawn(@, spawnData.payload)] ELSE st
  IN IF removeData.ok
     THEN [spawned EXCEPT !.world = WorldOnRemove(@, removeData.netId)] ELSE spawned

\* handleClientBoundPacket, after the emit: nothing is sent if the context
\* is canceled, else sendToClient(context.raw, channelId) sends if there is
\* an inbound peer
ForwardToClient(st, context, channelId) ==
  IF context.canceled THEN <<>>
  ELSE SendToClient([st EXCEPT !.toClient = <<>>], context.raw, channelId).toClient

\* handleClientBoundPacket, its end: the forward decision and the report of
\* what the handler did
ClientBoundOutcome(st, parsed, sendToServer, raw0, context, channelId, rawData, hooks) ==
  [st |-> st,
   report |-> [op |-> "clientBound", channelId |-> channelId, frame |-> rawData,
               packetId |-> parsed.packetId, kind |-> parsed.kind,
               accepted |-> sendToServer.ok, decoded |-> sendToServer,
               rewritten |-> sendToServer.ok /\ raw0 # rawData,
               raw0 |-> raw0, hooks |-> hooks, invoked |-> context.invoked,
               canceled |-> context.canceled, raw |-> context.raw,
               hadPeer |-> st.clientPeer # NoPeer,
               sent |-> ForwardToClient(st, context, channelId),
               forwarded |-> ForwardToClient(st, context, channelId) # <<>>,
               dispatch |-> NoDispatch,
               injectedToClient |-> st.toClient, injectedToServer |-> st.toServer,
               requests |-> st.requests, initiated |-> st.initiated,
               targets |-> st.targets]]

\* handleClientBoundPacket once context.raw is chosen: the subscribers run
\* on it
ClientBoundRewritten(st, parsed, sendToServer, raw0, channelId, rawData, hooks) ==
  ClientBoundOutcome(st, parsed, sendToServer, raw0,
                     RunSubscribers([raw |-> raw0, canceled |-> FALSE, invoked |-> 0],
                                    hooks),
                     channelId, rawData, hooks)

\* handleClientBoundPacket once an OnSendToServer frame was decoded
\* (sendToServer.ok is false for every other frame)
ClientBoundDecoded(st, channelId, rawData, hooks, env, parsed, sendToServer) ==
  ClientBoundRewritten(
    ClientBoundWorld(
      ClientBoundHandoff(st, sendToServer, env),
      IF parsed.packetId = "OnSpawn" /\ parsed.hasVariantArgs
      THEN ParseOnSpawn(parsed.variantArgs) ELSE [ok |-> FALSE, payload |-> <<>>],
      IF parsed.packetId = "OnRemove" /\ parsed.hasVariantArgs
      THEN ParseOnRemove(parsed.variantArgs) ELSE [ok |-> FALSE, netId |-> -1]),
    parsed, sendToServer,
    IF sendToServer.ok THEN RewrittenFrame(parsed, rawData) ELSE rawData,
    channelId, rawData, hooks)

\* handleClientBoundPacket once the frame is parsed
ClientBoundParsed(st, channelId, rawData, hooks, env, parsed) ==
  ClientBoundDecoded(st, channelId, rawData, hooks, env, parsed,
                     IF parsed.packetId = "OnSendToServer" /\ parsed.hasVariantArgs
                     THEN ParseOnSendToServer(parsed.variantArgs)
                     ELSE [ok |-> FALSE, port |-> 0, address |-> <<>>])

\* handleClientBoundPacket(channelId, rawData)
HandleClientBoundPacket(st, channelId, rawData, hooks, env) ==
  ClientBoundParsed(st, channelId, rawData, hooks, env, ParsePacket(rawData))

(***************************************************************************)
(* The frames and endpoints the peers and the bootstrap hand to the relay  *)
(***************************************************************************)
\* the upstream endpoint the frames of the model name
Upstream == [address |-> <<97>>, port |-> 17091]

UpstreamPort == Upstream.port

StrRoute == <<97, 124, 100, 124, 117>>
StrHost == <<97>>

\* an entry list as parseVariantEntries would return it
EntriesOf(specs) ==
  [count |-> Len(specs),
   entries |-> [i \in 1..Len(specs) |->
                  [encoded |-> BuildVariantEntry(specs[i][1], specs[i][2], specs[i][3])]]]

TankOf(specs, terminated) ==
  LET tank == BuildTankPacket(<<>>, GAME_PACKET_CALL_FUNCTION, -1, 0, 8, 0,
                              EncodeVariantEntries(EntriesOf(specs)))
  IN IF terminated THEN Append(tank, 0) ELSE tank

FnEntry == <<0, VARIANT_STRING, Str(StrOnSendToServer)>>
PortEntry == <<1, VARIANT_UNSIGNED, Num(UpstreamPort)>>
TokenEntry == <<2, VARIANT_UNSIGNED, Num(1)>>
UserEntry == <<3, VARIANT_UNSIGNED, Num(2)>>
RouteEntry == <<4, VARIANT_STRING, Str(StrRoute)>>
ModeEntry(mode) == <<5, VARIANT_UNSIGNED, Num(mode)>>
NameEntry == <<6, VARIANT_STRING, Str(StrHost)>>

\* OnSendToServer payloads: the entries, and the upstream endpoint they name
HandoffShapes ==
  { [name |-> "full", address |-> StrHost, port |-> UpstreamPort,
     specs |-> <<FnEntry, PortEntry, TokenEntry, UserEntry, RouteEntry, ModeEntry(1), NameEntry>>],
    [name |-> "modeLast", address |-> StrHost, port |-> UpstreamPort,
     specs |-> <<FnEntry, PortEntry, TokenEntry, UserEntry, RouteEntry, ModeEntry(0)>>],
    [name |-> "signedPort", address |-> StrHost, port |-> UpstreamPort,
     specs |-> <<FnEntry, <<1, VARIANT_SIGNED, Num(UpstreamPort)>>, TokenEntry, UserEntry,
                 RouteEntry, ModeEntry(1), NameEntry>>],
    [name |-> "routeNotString", address |-> <<>>, port |-> UpstreamPort,
     specs |-> <<FnEntry, PortEntry, TokenEntry, UserEntry,
                 <<4, VARIANT_UNSIGNED, Num(7)>>, ModeEntry(1), NameEntry>>],
    [name |-> "noPort", address |-> StrHost, port |-> 0,
     specs |-> <<FnEntry, TokenEntry, UserEntry, RouteEntry, ModeEntry(1), NameEntry>>],
    [name |-> "twoPorts", address |-> StrHost, port |-> 2,
     specs |-> <<FnEntry, PortEntry, <<1, VARIANT_UNSIGNED, Num(2)>>, UserEntry,
                 RouteEntry, ModeEntry(1), NameEntry>>],
    [name |-> "bareRoute", address |-> StrHost, port |-> UpstreamPort,
     specs |-> <<FnEntry, PortEntry, TokenEntry, UserEntry,
                 <<4, VARIANT_STRING, Str(StrHost)>>, ModeEntry(1), NameEntry>>] }

HandoffFrame(shape, terminated) == TankOf(shape.specs, terminated)

\* an OnSendToServer payload with two entries of index 4: parseVariantArgs
\* takes the later one for argument 4, the rewrite finds the earlier one
TwoRoutesFrame ==
  TankOf(<<FnEntry, PortEntry, TokenEntry, UserEntry, RouteEntry,
           <<4, VARIANT_STRING, Str(<<98, 124, 100>>)>>, ModeEntry(1)>>, TRUE)

StrSpawnLocal ==
  StrSpawn \o ChPipe \o <<97>> \o ChNewline \o StrNetID \o ChPipe \o <<49>> \o ChNewline
    \o StrType \o ChPipe \o StrLocal

StrSpawnOther == StrNetID \o ChPipe \o <<49>> \o ChNewline \o StrType \o ChPipe \o <<111>>

StrRemoveOne == StrNetID \o ChPipe \o <<49>>

InputFrame(text) ==
  BuildTextPacket(NET_MESSAGE_GENERIC_TEXT,
    StrAction \o ChPipe \o StrInput \o ChNewline \o StrPipeTextPipe \o text)

ActionFrame(action) ==
  BuildTextPacket(NET_MESSAGE_GENERIC_TEXT, StrAction \o ChPipe \o action)

\* a tank DISCONNECT frame: the 60-byte header alone, and the same frame
\* followed by the terminating NUL
DisconnectFrame == BuildTankPacket(<<>>, GAME_PACKET_DISCONNECT, 0, 0, 0, 0, <<>>)

DisconnectFrameTerminated == Append(DisconnectFrame, 0)

RawFrame == <<9, 9>>

CmdExit == ChSlash \o StrExit
CmdProxy == ChSlash \o StrProxy
CmdWarp == ChSlash \o StrWarp \o <<32, 65>>
CmdSkin == ChSlash \o StrSkin \o <<32, 53>>
CmdNick == ChSlash \o StrNick \o <<32, 120>>
TextHello == <<104, 105>>

\* the text of an Input frame whose only candidate is the fallback line
FallbackOnlyFrame ==
  BuildTextPacket(NET_MESSAGE_GENERIC_TEXT,
    StrAction \o ChPipe \o StrInput \o ChNewline \o <<32>> \o StrPipeTextPipe \o CmdProxy)

\* a frame of another packet-id that carries a command text
LogWithCommandFrame ==
  BuildTextPacket(NET_MESSAGE_GAME_MESSAGE,
    StrAction \o ChPipe \o StrLog \o ChNewline \o StrPipeTextPipe \o CmdProxy)

\* frames the classifier tags raw: cut in the message type, of an unknown
\* message type, a type alone whose last byte is taken as the terminator,
\* and tank frames of less than 60 bytes once the terminator is taken
UnclassifiedFrames ==
  { <<2>>, <<2, 0, 0>>, RawFrame, <<7, 0, 0, 0, 97, 0>>, <<0, 0, 0, 0, 97>>,
    <<2, 0, 0, 0>>, <<4, 0, 0, 0, 1, 2, 3>>, <<4, 0, 0, 0, 1, 0>>, DisconnectFrame }

\* client-bound OnSendToServer frames the rewrite declines: the route is
\* no string, there is no port entry, there are too few arguments, or the
\* payload is cut
DeclinedHandoffFrames ==
  { HandoffFrame(shape, terminated) :
      shape \in {h \in HandoffShapes : h.name \in {"routeNotString", "noPort"}},
      terminated \in BOOLEAN }
    \cup { TankOf(<<FnEntry, PortEntry>>, terminated) : terminated \in BOOLEAN }
    \cup { SubSeq(TankOf(<<FnEntry, PortEntry, TokenEntry, UserEntry, RouteEntry>>, FALSE),
                  1, TankHeaderLen + 30) }

CmdBoom == ChSlash \o StrBoom

\* an Input frame with two candidates: the text value names the command
\* that throws; the fallback, which trims the lines, finds another command
\* in a line the text parser keys by " text"
TwoCandidatesFrame ==
  BuildTextPacket(NET_MESSAGE_GENERIC_TEXT,
    StrAction \o ChPipe \o StrInput \o ChNewline \o <<32>> \o StrText \o ChPipe
      \o CmdProxy \o ChNewline \o StrText \o ChPipe \o CmdBoom)

ServerBoundFrames ==
  IF scenario = "faulty"
  THEN { InputFrame(CmdBoom), TwoCandidatesFrame, InputFrame(CmdProxy), InputFrame(CmdWarp),
         InputFrame(TextHello) }
  ELSE IF scenario = "raw" THEN UnclassifiedFrames \cup { InputFrame(TextHello) }
  ELSE IF scenario = "inbound"
  THEN { InputFrame(CmdProxy), InputFrame(CmdWarp), InputFrame(CmdSkin), InputFrame(CmdNick),
         InputFrame(CmdExit), InputFrame(TextHello), InputFrame(<<1>> \o CmdProxy),
         InputFrame(CmdProxy \o <<33, 120>>), InputFrame(ChSlash \o TextHello),
         InputFrame(<<120>> \o StrProxy), FallbackOnlyFrame, LogWithCommandFrame,
         ActionFrame(StrQuit), ActionFrame(StrJoinRequest), DisconnectFrame,
         DisconnectFrameTerminated, RawFrame }
  ELSE IF scenario = "outbound"
  THEN { InputFrame(TextHello), ActionFrame(StrJoinRequest) }
  ELSE IF scenario = "hooks"
  THEN { InputFrame(TextHello), InputFrame(CmdProxy), InputFrame(CmdExit), ActionFrame(StrQuit) }
  ELSE { InputFrame(CmdExit), InputFrame(CmdWarp), ActionFrame(StrQuit), DisconnectFrame,
         DisconnectFrameTerminated, RawFrame }

ClientBoundFrames ==
  IF scenario \in {"drop", "slots"}
  THEN { HandoffFrame(shape, TRUE) : shape \in {h \in HandoffShapes : h.name \in {"full", "noPort"}} }
         \cup { TankOf(<<<<0, VARIANT_STRING, Str(StrOnSpawn)>>,
                         <<1, VARIANT_STRING, Str(StrSpawnLocal)>>>>, TRUE) }
  ELSE IF scenario = "raw"
  THEN UnclassifiedFrames \cup DeclinedHandoffFrames
         \cup { HandoffFrame(shape, TRUE) : shape \in {h \in HandoffShapes : h.name = "full"} }
  ELSE IF scenario = "outbound"
  THEN { HandoffFrame(shape, terminated) : shape \in HandoffShapes, terminated \in BOOLEAN }
       \cup { TankOf(<<<<0, VARIANT_STRING, Str(StrOnSpawn)>>,
                       <<1, VARIANT_STRING, Str(StrSpawnLocal)>>>>, TRUE),
              TankOf(<<<<0, VARIANT_STRING, Str(StrOnSpawn)>>,
                       <<1, VARIANT_STRING, Str(StrSpawnOther)>>>>, TRUE),
              TankOf(<<<<0, VARIANT_STRING, Str(StrOnRemove)>>,
                       <<1, VARIANT_STRING, Str(StrRemoveOne)>>>>, TRUE),
              InputFrame(CmdProxy), RawFrame }
  ELSE IF scenario = "frames"
  THEN { HandoffFrame(shape, terminated) : shape \in HandoffShapes, terminated \in BOOLEAN }
       \cup { HandoffFrame(shape, FALSE) \o tail : shape \in HandoffShapes,
                                                  tail \in {<<7>>, <<7, 0>>} }
       \cup { TwoRoutesFrame }
  ELSE { TankOf(<<FnEntry, PortEntry, TokenEntry, UserEntry, RouteEntry, ModeEntry(1),
                  NameEntry>>, TRUE),
         InputFrame(CmdProxy), RawFrame }

\* what the subscribers of one emit do, in registration order
HookRuns == { <<>>, <<"cancel">>, <<"uncancel">>, <<"mutate">>, <<"throw", "cancel">> }

\* the subscribers of serverBoundPacket and of clientBoundPacket
ServerBoundHooks == IF scenario \in {"inbound", "hooks", "raw", "faulty"} THEN HookRuns ELSE { <<>> }

ClientBoundHooks == IF scenario \in {"outbound", "hooks", "raw"} THEN HookRuns ELSE { <<>> }

\* what server_data.php may name as the upstream endpoint
Endpoints ==
  IF scenario \in {"drop", "slots"}
  THEN [address : {StrHost, <<32>>, <<32, 97>>}, port : {UpstreamPort}]
         \cup { [address |-> StrHost, port |-> 0], [address |-> <<>>, port |-> UpstreamPort] }
  ELSE IF scenario = "retry"
  THEN [address : {StrHost, <<98>>, <<32, 97>>}, port : {1, UpstreamPort, NoPort}]
  ELSE [address : {StrHost, <<>>}, port : {UpstreamPort, 0}]

(***************************************************************************)
(* proxyCore.js: the events of the relay                                   *)
(***************************************************************************)
\* the ENet hosts poll from start() on; stop() does not end them
Polling == phase \in {"running", "stopped"}

\* a frame handed to the transport (proxyClient.send, proxyServer.send):
\* the first frame of the wire, in place of the last
HandToTransportFirst(wire, entry) == <<entry>> \o wire

\* proxyClient.send and proxyServer.send: the transport takes the frames of
\* a peer in the order of the calls
HandToTransport(wire, entry) == Append(wire, entry)

\* the state a raw event leaves, with the arrival counted and the frame the
\* handler sent on, if any, put on the wire
Relayed(r, direction) ==
  IF scenario \notin {"order", "gap"} THEN r.st
  ELSE
    LET arrival == r.st.hist.arrivals[direction] + 1
        counted == [r.st EXCEPT !.hist.arrivals[direction] = arrival,
                                !.hist.events =
                                  IF scenario = "gap"
                                  THEN Append(@, [e |-> "arrival", direction |-> direction,
                                                  arrival |-> arrival,
                                                  frame |-> IF r.report.op = "ignored" THEN <<>>
                                                            ELSE r.report.frame,
                                                  handled |-> r.report.op # "ignored",
                                                  hadPeer |->
                                                    IF direction = "serverBound"
                                                    THEN r.st.serverPeer # NoPeer
                                                    ELSE r.st.clientPeer # NoPeer])
                                  ELSE @]
    IN IF r.report.op # "ignored" /\ r.report.sent # <<>>
       THEN [counted EXCEPT !.hist.wire =
               HandToTransport(@, [direction |-> direction,
                                   channelId |-> r.report.sent[1].channelId,
                                   arrival |-> arrival,
                                   received |-> r.report.frame,
                                   frame |-> r.report.sent[1].frame])]
       ELSE counted

\* the report kept of a packet handler
Kept(report) ==
  IF scenario \in {"inbound", "outbound", "hooks", "frames", "raw", "drop", "faulty", "slots",
                  "gap"} THEN report
  ELSE [op |-> report.op]

\* the report kept of a handler that may run connectPendingServer
Ran(op, after) ==
  IF scenario \in {"drop", "slots"}
  THEN [op |-> op, initiated |-> after.initiated, targets |-> after.targets,
        connects |-> after.connects, requests |-> after.requests,
        delays |-> after.delays, hadTimer |-> upstreamRetryTimer]
  ELSE [op |-> op]

\* start()
Start ==
  /\ phase = "constructed"
  /\ Commit([Cur EXCEPT !.phase = "running"])
  /\ last' = [op |-> "start"]
  /\ UNCHANGED <<scenario, commands>>

\* stop(), from SIGINT or SIGTERM
Stop ==
  /\ phase = "running"
  /\ Commit(StopProxy(Cur))
  /\ last' = [op |-> "stop"]
  /\ UNCHANGED <<scenario, commands>>

\* handleServerDataRequest: the upstream answer names an endpoint
BootstrapCompletion(endpoint) ==
  /\ phase = "running"
  /\ Commit([Cur EXCEPT !.pendingAddress = endpoint.address,
                        !.pendingPort = endpoint.port])
  /\ last' = IF scenario \in {"drop", "slots"} THEN [op |-> "bootstrap", endpoint |-> endpoint]
             ELSE [op |-> "bootstrap"]
  /\ UNCHANGED <<scenario, commands>>

\* proxyServer.on("connect")
InboundConnectEvent(env) ==
  /\ Polling
  /\ inConn = "free"
  /\ \E s0 \in {[Cur EXCEPT !.inConn = "connected", !.clientPeer = 0]} :
       \E s1 \in {IF IsInRangePort(s0.pendingPort) /\ s0.pendingAddress # <<>>
                   THEN ConnectPendingServer(s0, env) ELSE s0} :
         Commit(s1) /\ last' = Ran("inboundConnect", s1)
  /\ UNCHANGED <<scenario, commands>>

\* proxyServer.on("raw")
InboundRawEvent(channelId, data, hooks) ==
  /\ Polling
  /\ inConn = "connected"
  /\ \E r \in {IF clientPeer # 0
              THEN [st |-> Cur, report |-> [op |-> "ignored"]]
              ELSE HandleServerBoundPacket(Cur, commands, channelId, data, hooks)} :
       \E relayed \in {Relayed(r, "serverBound")} :
         Commit(relayed) /\ last' = Kept(r.report)
  /\ UNCHANGED <<scenario, commands>>

\* proxyServer.on("disconnect"): the handler, on the state record
InboundDisconnected(st) ==
  LET s0 == [st EXCEPT !.inConn = "free"]
      s1 == IF s0.clientPeer = 0 THEN [s0 EXCEPT !.clientPeer = NoPeer] ELSE s0
      s2 == ClearUpstreamRetry(s1)
      s3 == IF ~HasPendingEndpoint(s2.pendingAddress, s2.pendingPort)
            THEN [s2 EXCEPT !.pendingAddress = <<>>, !.pendingPort = NoPort]
            ELSE s2
      s4 == [s3 EXCEPT !.world = WorldClear]
  IN IF s4.serverPeer # NoPeer THEN DisconnectServerPeer(s4, "later") ELSE s4

\* proxyServer.on("disconnect")
InboundDisconnectEvent ==
  /\ Polling
  /\ inConn \in {"connected", "closing"}
  /\ \E after \in {InboundDisconnected(Cur)} : Commit(after)
  /\ last' = IF scenario \notin {"drop", "slots"} THEN [op |-> "inboundDisconnect"]
             ELSE [op |-> "inboundDisconnect", pendingAddress |-> pendingAddress,
                   pendingPort |-> pendingPort, hadTimer |-> upstreamRetryTimer,
                   hadWorld |-> world # WorldClear]
  /\ UNCHANGED <<scenario, commands>>

\* proxyClient.on("connect")
OutboundConnectEvent(n) ==
  /\ Polling
  /\ outConns[n] = "connecting"
  /\ Commit([ClearUpstreamRetry([Cur EXCEPT !.outConns[n] = "connected"])
               EXCEPT !.serverPeer = n])
  /\ last' = [op |-> "outboundConnect"]
  /\ UNCHANGED <<scenario, commands>>

\* proxyClient.on("raw")
OutboundRawEvent(n, channelId, data, hooks, env) ==
  /\ Polling
  /\ outConns[n] = "connected"
  /\ \E r \in {IF serverPeer # n
              THEN [st |-> Cur, report |-> [op |-> "ignored"]]
              ELSE HandleClientBoundPacket(Cur, channelId, data, hooks, env)} :
       \E relayed \in {Relayed(r, "clientBound")} :
         Commit(relayed) /\ last' = Kept(r.report)
  /\ UNCHANGED <<scenario, commands>>

\* proxyClient.on("disconnect"): the handler, on the state record
OutboundDisconnected(st, n, env) ==
  LET s0 == [st EXCEPT !.outConns[n] = "free"]
      s1 == IF s0.serverPeer = n THEN [s0 EXCEPT !.serverPeer = NoPeer] ELSE s0
  IN IF s1.clientPeer # NoPeer /\ HasPendingEndpoint(s1.pendingAddress, s1.pendingPort)
     THEN ConnectPendingServer(s1, env)
     ELSE IF s1.clientPeer # NoPeer THEN DisconnectClientPeer(s1, "later")
     ELSE s1

\* what the handler did: the disconnect requests it made and the connect
\* calls it made
OutboundDisconnectReport(n, env, after) ==
  IF scenario \notin {"drop", "slots"} THEN [op |-> "outboundDisconnect"]
  ELSE [op |-> "outboundDisconnect", n |-> n,
        hadClient |-> clientPeer # NoPeer,
        pendingValid |-> HasPendingEndpoint(pendingAddress, pendingPort),
        serverPeerBefore |-> serverPeer,
        requests |-> after.requests, initiated |-> after.initiated,
        targets |-> after.targets, connects |-> after.connects,
        delays |-> after.delays, hadTimer |-> upstreamRetryTimer,
        connectCalls |->
          OutboundDisconnected([Cur EXCEPT !.track = TRUE, !.hist = HistZero], n, env)
            .hist.connectCalls]

\* proxyClient.on("disconnect")
OutboundDisconnectEvent(n, env) ==
  /\ Polling
  /\ outConns[n] \in {"connecting", "connected", "closing"}
  /\ \E after \in {OutboundDisconnected(Cur, n, env)} :
       Commit(after) /\ last' = OutboundDisconnectReport(n, env, after)
  /\ UNCHANGED <<scenario, commands>>

\* the timeout of scheduleUpstreamRetry
RetryTimerFire(env) ==
  /\ Polling
  /\ upstreamRetryTimer
  /\ \E after \in {ConnectPendingServer([Cur EXCEPT !.upstreamRetryTimer = FALSE], env)} :
       Commit(after) /\ last' = Ran("retryTimer", after)
  /\ UNCHANGED <<scenario, commands>>

\* the timeout of scheduleDelayed for the task the warp command left
WarpTaskFire ==
  /\ Polling
  /\ \E timer \in {t \in timers : t.cb.kind = "warp"} :
       LET s0 == TimerFired(Cur, timer)
           s1 == IF s0.serverPeer # NoPeer THEN SendJoinRequest(s0, timer.cb.worldName)
                 ELSE s0
       IN /\ Commit(s1)
          /\ last' = Kept([op |-> "warpTask", injectedToServer |-> s1.toServer])
  /\ UNCHANGED <<scenario, commands>>

\* the timeout of the exit command: process.exit(0)
ProcessExit ==
  /\ Polling
  /\ exitTimer
  /\ Commit([Cur EXCEPT !.phase = "exited", !.exitTimer = FALSE,
                        !.upstreamRetryTimer = FALSE, !.tasksByTag = {}, !.timers = {},
                        !.clientPeer = NoPeer, !.serverPeer = NoPeer,
                        !.inConn = "free",
                        !.outConns = [n \in DOMAIN outConns |-> "free"]])
  /\ last' = [op |-> "processExit"]
  /\ UNCHANGED <<scenario, commands>>

Slots == 0..(MaxOutPeers - 1)

(***************************************************************************)
(* The relay from construction                                             *)
(***************************************************************************)
Init ==
  /\ scenario = "relay"
  /\ RelayInit
  /\ world = WorldClear
  /\ commands = RepositoryCommands
  /\ last = [op |-> "init"]

Next ==
  \/ Start
  \/ Stop
  \/ \E endpoint \in Endpoints : BootstrapCompletion(endpoint)
  \/ \E env \in ConnectEnvs : InboundConnectEvent(env)
  \/ \E data \in ServerBoundFrames, hooks \in ServerBoundHooks : InboundRawEvent(0, data, hooks)
  \/ InboundDisconnectEvent
  \/ \E n \in Slots : OutboundConnectEvent(n)
  \/ \E n \in Slots, data \in ClientBoundFrames, hooks \in ClientBoundHooks, env \in ConnectEnvs :
       OutboundRawEvent(n, 0, data, hooks, env)
  \/ \E n \in Slots, env \in ConnectEnvs : OutboundDisconnectEvent(n, env)
  \/ \E env \in ConnectEnvs : RetryTimerFire(env)
  \/ WarpTaskFire
  \/ ProcessExit

Spec == Init /\ [][Next]_vars

(***************************************************************************)
(* Connections coming and going, with the transport delivering its events  *)
(***************************************************************************)
InitTeardown ==
  /\ scenario = "teardown"
  /\ RelayInit
  /\ world = WorldClear
  /\ commands = RepositoryCommands
  /\ last = [op |-> "init"]

NextTeardown ==
  \/ Start
  \/ \E endpoint \in Endpoints : BootstrapCompletion(endpoint)
  \/ \E env \in ConnectEnvs : InboundConnectEvent(env)
  \/ InboundDisconnectEvent
  \/ \E n \in Slots : OutboundConnectEvent(n)
  \/ \E n \in Slots, env \in ConnectEnvs : OutboundDisconnectEvent(n, env)

\* the transport delivers what it owes: an attempt ends in a connect or a
\* disconnect event, and a closing connection in a disconnect event
Owed(n) ==
  \/ OutboundConnectEvent(n)
  \/ /\ outConns[n] \in {"connecting", "closing"}
     /\ \E env \in ConnectEnvs : OutboundDisconnectEvent(n, env)

SpecTeardown == InitTeardown /\ [][NextTeardown]_vars

FairSpec ==
  /\ SpecTeardown
  /\ \A n \in Slots : WF_vars(Owed(n))
  /\ WF_vars(inConn = "closing" /\ InboundDisconnectEvent)

\* C1: in every state between handlers, an occupied outbound peer slot
\* implies an occupied inbound peer slot
C1_OutboundImpliesInbound == serverPeer # NoPeer => clientPeer # NoPeer

\* an outbound connection, established or in flight, with no inbound peer
Orphaned ==
  /\ clientPeer = NoPeer
  /\ \E n \in Slots : outConns[n] \in {"connecting", "connected"}

\* C4: under fair delivery of transport events, a state with no inbound
\* peer and an outbound connection established or in flight does not
\* persist forever
C4_OutboundEventuallyTornDown == []<>(~Orphaned)

(***************************************************************************)
(* The relay with both peers established: the packet handlers              *)
(***************************************************************************)
Established ==
  /\ phase = "running"
  /\ clientPeer = 0
  /\ serverPeer = 0
  /\ pendingAddress = <<>>
  /\ pendingPort = NoPort
  /\ upstreamRetryTimer = FALSE
  /\ upstreamRetryCount = 0
  /\ proxyClientListening = TRUE
  /\ tasksByTag = {}
  /\ timers = {}
  /\ exitTimer = FALSE
  /\ inConn = "connected"
  /\ outConns = [n \in Slots |-> IF n = 0 THEN "connected" ELSE "free"]
  /\ hist = HistZero
  /\ world = WorldClear
  /\ commands = (IF scenario = "faulty" THEN RepositoryCommands \cup {StrBoom}
                 ELSE RepositoryCommands)
  /\ last = [op |-> "init"]

InitInbound == scenario = "inbound" /\ Established

NextInbound ==
  \/ \E data \in ServerBoundFrames, hooks \in ServerBoundHooks : InboundRawEvent(0, data, hooks)
  \/ \E n \in Slots, data \in ClientBoundFrames, hooks \in ClientBoundHooks, env \in ConnectEnvs :
       OutboundRawEvent(n, 0, data, hooks, env)
  \/ \E n \in Slots, env \in ConnectEnvs : OutboundDisconnectEvent(n, env)
  \/ \E n \in Slots : OutboundConnectEvent(n)
  \/ WarpTaskFire
  \/ ProcessExit

SpecInbound == InitInbound /\ [][NextInbound]_vars

\* the Input frames of the model that carry a command of the registry in
\* one of their candidates, and those that carry none
DispatchingFrames ==
  { InputFrame(CmdProxy), InputFrame(CmdWarp), InputFrame(CmdSkin), InputFrame(CmdNick),
    InputFrame(CmdExit), InputFrame(<<1>> \o CmdProxy), InputFrame(CmdProxy \o <<33, 120>>),
    FallbackOnlyFrame }

PlainInputFrames ==
  { InputFrame(TextHello), InputFrame(ChSlash \o TextHello), InputFrame(<<120>> \o StrProxy) }

\* whether a subscriber that runs sets or clears context.canceled
ChangesCanceled(hooks) ==
  \E i \in 1..Len(hooks) :
    /\ hooks[i] \in {"cancel", "uncancel"}
    /\ \A j \in 1..(i - 1) : hooks[j] # "throw"

\* whether a subscriber that runs replaces context.raw
ReplacesRaw(hooks) ==
  \E i \in 1..Len(hooks) :
    /\ hooks[i] = "mutate"
    /\ \A j \in 1..(i - 1) : hooks[j] # "throw"

\* C8 as stated: an Input frame is sent to the outbound peer only if no
\* candidate dispatched; a frame a handler took is canceled and not sent; a
\* frame no handler took is sent when an outbound peer exists
C8_AsStated ==
  (last.op = "serverBound" /\ last.packetId = "Input") =>
    /\ last.frame \in DispatchingFrames => (last.canceled /\ ~last.forwarded)
    /\ (last.frame \in PlainInputFrames /\ last.hadPeer) => last.forwarded
    /\ last.forwarded => last.frame \in PlainInputFrames

\* C8 amended: an Input frame is sent exactly when context.canceled is false
\* after the subscribers have run and an outbound peer exists; when no
\* subscriber sets or clears context.canceled, a frame a handler took is
\* canceled and not sent, and a frame no handler took is sent when an
\* outbound peer exists
C8_ForwardedUnlessTakenOrCanceled ==
  (last.op = "serverBound" /\ last.packetId = "Input") =>
    /\ last.forwarded <=> (~last.canceled /\ last.hadPeer)
    /\ last.dispatch.ran <=> last.frame \in DispatchingFrames
    /\ last.dispatch.ran \/ last.frame \in PlainInputFrames
    /\ ~ChangesCanceled(last.hooks) =>
         /\ last.frame \in DispatchingFrames => (last.canceled /\ ~last.forwarded)
         /\ (last.frame \in PlainInputFrames /\ last.hadPeer) => last.forwarded
         /\ last.forwarded => last.frame \in PlainInputFrames

\* a handler took the frame through its fallback candidate while an
\* outbound peer was there to send it to
C8_Witness ==
  /\ last.op = "serverBound"
  /\ last.frame = FallbackOnlyFrame
  /\ last.hooks = <<>>
  /\ last.hadPeer
  /\ last.dispatch.ran
  /\ ~last.forwarded

\* the first character of text that is neither in U+0000..U+001F nor white
\* space (U+FEFF is white space) is the prefix
BeginsWithPrefixOnceNormalized(text) ==
  \E i \in 1..Len(text) :
    /\ text[i] = Prefix[1]
    /\ \A j \in 1..(i - 1) : IsControl(text[j]) \/ IsWhiteSpace(text[j])

\* C10: a command handler runs only while a server-bound frame classified
\* as Input is processed, and only for a candidate of that frame that begins
\* with the prefix once normalized; no client-bound frame and no frame of
\* another packet-id dispatches a command
C10_HandlersOnlyFromPrefixedInput ==
  (/\ last.op \in {"serverBound", "clientBound"}
   /\ last.dispatch.ran \/ last.injectedToClient # <<>>) =>
    /\ last.op = "serverBound"
    /\ ParsePacket(last.frame).packetId = "Input"
    /\ last.dispatch.ran
    /\ last.dispatch.text \in
         {ParsePacket(last.frame).inputText,
          ExtractInputTextFallback(ParsePacket(last.frame).text)}
    /\ BeginsWithPrefixOnceNormalized(last.dispatch.text)

\* a handler ran for a candidate that begins with the prefix only after the
\* control byte before it is removed
C10_Witness ==
  /\ last.op = "serverBound"
  /\ last.dispatch.ran
  /\ last.dispatch.text = <<1>> \o CmdProxy
  /\ last.injectedToClient # <<>>

\* the disconnect requests a Quit or a Disconnect frame owes: the inbound
\* peer (there whenever the handler runs) and the outbound peer if present
TeardownRequests(packetId, hadServerPeer) ==
  <<[peer |-> "client", mode |-> IF packetId = "Quit" THEN "normal" ELSE "now"]>>
    \o (IF hadServerPeer THEN <<[peer |-> "server", mode |-> "now"]>> ELSE <<>>)

\* C11, with no subscriber registered: a server-bound Quit frame and a
\* server-bound tank DISCONNECT frame are never sent to the outbound peer,
\* and each present peer is asked to disconnect while the frame is handled:
\* for Quit the inbound peer with "normal" and the outbound peer with "now",
\* for Disconnect both with "now"
C11_QuitAndDisconnectTearDown ==
  (/\ last.op = "serverBound"
   /\ last.hooks = <<>>
   /\ last.frame \in {ActionFrame(StrQuit), DisconnectFrame, DisconnectFrameTerminated}) =>
    /\ ~last.forwarded
    /\ last.requests =
         TeardownRequests(IF last.frame = ActionFrame(StrQuit) THEN "Quit" ELSE "Disconnect",
                          last.hadPeer)

InitOutbound == scenario = "outbound" /\ Established

NextOutbound ==
  \/ \E data \in ServerBoundFrames, hooks \in ServerBoundHooks : InboundRawEvent(0, data, hooks)
  \/ \E n \in Slots, data \in ClientBoundFrames, hooks \in ClientBoundHooks, env \in ConnectEnvs :
       OutboundRawEvent(n, 0, data, hooks, env)
  \/ \E n \in Slots, env \in ConnectEnvs : OutboundDisconnectEvent(n, env)
  \/ \E n \in Slots : OutboundConnectEvent(n)

SpecOutbound == InitOutbound /\ [][NextOutbound]_vars

\* the OnSendToServer payloads a received frame may come from
ShapesOf(frame) ==
  {shape \in HandoffShapes : \E terminated \in BOOLEAN : HandoffFrame(shape, terminated) = frame}

\* the extra payload of a tank frame, by the size its header gives
ExtraOfFrame(frame) ==
  Slice(frame, TankHeaderLen, TankHeaderLen + ReadUInt32LE(frame, 56))

\* parseVariantArgs of the frame's payload has the listen port as argument 1
Arg1IsListenPort(frame) ==
  /\ Len(frame) >= TankHeaderLen
  /\ LET args == ParseVariantArgs(ExtraOfFrame(frame)) IN
     Len(args) >= 2 /\ args[2] = Num(ListenPort)

\* the variant list of the frame has no index twice, an entry of index 1
\* and a string entry of index 4
RewritableList(frame) ==
  LET entries == ParseVariantEntries(ExtraOfFrame(frame)).entries IN
  /\ \A i, j \in 1..Len(entries) : entries[i].index = entries[j].index => i = j
  /\ \E i \in 1..Len(entries) : entries[i].index = 1
  /\ \E i \in 1..Len(entries) : entries[i].index = 4 /\ entries[i].type = VARIANT_STRING

C5_TrailingNulPreserved ==
  (last.op = "clientBound" /\ last.rewritten /\ last.forwarded /\ last.hooks = <<>>) =>
    LET sent == last.raw
        size == ReadUInt32LE(sent, 56)
        terminated == Len(last.frame) = TankHeaderLen + ReadUInt32LE(last.frame, 56) + 1
    IN IF terminated
       THEN Len(sent) = TankHeaderLen + size + 1 /\ sent[Len(sent)] = 0
       ELSE Len(sent) = TankHeaderLen + size

(***************************************************************************)
(* The relay with both peers established: the order of the frames handed   *)
(* on, per direction and channel                                           *)
(***************************************************************************)
OrderChannels == {0, 1}

OrderHooks == { <<>>, <<"mutate">> }

\* frames of the game: a chat line, and a command the registry takes
OrderServerBound == { InputFrame(TextHello), InputFrame(CmdProxy) }

\* frames of the server: an OnSendToServer the relay rewrites, and a frame
\* it does not decode
OrderClientBound == { HandoffFrame(CHOOSE shape \in HandoffShapes : shape.name = "full", TRUE),
                      RawFrame }

InitOrder == scenario = "order" /\ Established

Arrived == hist.arrivals.serverBound + hist.arrivals.clientBound

NextOrder ==
  \/ \E channelId \in OrderChannels, data \in OrderServerBound, hooks \in OrderHooks :
       Arrived < MaxArrivals /\ InboundRawEvent(channelId, data, hooks)
  \/ \E channelId \in OrderChannels, data \in OrderClientBound, hooks \in OrderHooks,
        env \in ConnectEnvs :
       Arrived < MaxArrivals /\ OutboundRawEvent(0, channelId, data, hooks, env)

SpecOrder == InitOrder /\ [][NextOrder]_vars

\* what the relay may hand on for a received frame: the frame itself, the
\* rewritten OnSendToServer frame, or what a subscriber put in context.raw
HandedOnFor(direction, received) ==
  {received, HookFrame}
    \cup (IF direction = "clientBound" /\ received \in OrderClientBound \ {RawFrame}
          THEN {RewrittenFrame(ParsePacket(received), received)} ELSE {})

\* C12: for each direction and channel the frames handed to the opposite
\* peer are an order-preserving subsequence of the frames received on that
\* direction, each possibly rewritten: no frame is handed on twice, none is
\* handed on after a frame that arrived later, and a rewritten
\* OnSendToServer frame is not overtaken by a later frame
C12_RelayPreservesOrder ==
  /\ \A i \in 1..Len(hist.wire) :
       /\ hist.wire[i].arrival \in 1..hist.arrivals[hist.wire[i].direction]
       /\ hist.wire[i].frame \in HandedOnFor(hist.wire[i].direction, hist.wire[i].received)
  /\ \A i, j \in 1..Len(hist.wire) :
       (/\ i < j
        /\ hist.wire[i].direction = hist.wire[j].direction
        /\ hist.wire[i].channelId = hist.wire[j].channelId) =>
         hist.wire[i].arrival < hist.wire[j].arrival

\* a rewritten OnSendToServer frame was handed to the game, and the frame
\* that arrived after it on the same channel was handed on after it
C12_Witness ==
  \E i, j \in 1..Len(hist.wire) :
    /\ i < j
    /\ hist.wire[i].direction = "clientBound"
    /\ hist.wire[j].direction = "clientBound"
    /\ hist.wire[i].channelId = hist.wire[j].channelId
    /\ hist.wire[i].frame # hist.wire[i].received
    /\ hist.wire[i].frame = RewrittenFrame(ParsePacket(hist.wire[i].received),
                                           hist.wire[i].received)
    /\ hist.wire[j].arrival = hist.wire[i].arrival + 1

(***************************************************************************)
(* The relay with both peers established: the hook bus in both directions  *)
(***************************************************************************)
InitHooks == scenario = "hooks" /\ Established

NextHooks ==
  \/ \E channelId \in OrderChannels, data \in ServerBoundFrames, hooks \in ServerBoundHooks :
       InboundRawEvent(channelId, data, hooks)
  \/ \E channelId \in OrderChannels, data \in ClientBoundFrames, hooks \in ClientBoundHooks,
        env \in ConnectEnvs :
       OutboundRawEvent(0, channelId, data, hooks, env)
  \/ \E env \in ConnectEnvs : OutboundDisconnectEvent(0, env)

SpecHooks == InitHooks /\ [][NextHooks]_vars

\* the subscribers that run: those registered before the first that throws,
\* and that one
Invoked(hooks) ==
  IF \E i \in 1..Len(hooks) : hooks[i] = "throw"
  THEN SubSeq(hooks, 1, CHOOSE i \in 1..Len(hooks) :
                          hooks[i] = "throw" /\ \A j \in 1..(i - 1) : hooks[j] # "throw")
  ELSE hooks

\* context.canceled as the subscribers leave it: what the last of them to
\* assign it assigned, or what the handler had set
CanceledAfter(initial, hooks) ==
  LET ran == Invoked(hooks)
      assigning == {i \in 1..Len(ran) : ran[i] \in {"cancel", "uncancel"}}
  IN IF assigning = {} THEN initial
     ELSE ran[CHOOSE i \in assigning : \A j \in assigning : j <= i] = "cancel"

\* context.raw as the subscribers leave it
RawAfter(initial, hooks) ==
  IF \E i \in 1..Len(Invoked(hooks)) : Invoked(hooks)[i] = "mutate" THEN HookFrame
  ELSE initial

\* C13: for every frame a packet handler receives, the event of its
\* direction is published once before the forwarding decision (each
\* subscriber runs once, in registration order, up to one that throws); the
\* frame is sent to the opposite peer if and only if context.canceled is
\* false after the subscribers ran and the opposite peer exists, and the
\* bytes sent are context.raw as the subscribers left it, on the channel of
\* the frame
C13_PublishedOnceThenForwarded ==
  last.op \in {"serverBound", "clientBound"} =>
    /\ last.invoked = Len(Invoked(last.hooks))
    /\ last.canceled =
         CanceledAfter(last.op = "serverBound" /\ last.intercepted, last.hooks)
    /\ last.raw =
         RawAfter(IF last.op = "serverBound" THEN last.frame ELSE last.raw0, last.hooks)
    /\ last.sent =
         IF /\ ~last.canceled
            /\ (IF last.op = "serverBound" THEN serverPeer ELSE clientPeer) # NoPeer
         THEN <<[channelId |-> last.channelId, frame |-> last.raw]>>
         ELSE <<>>

\* a subscriber threw before the one that cancels could run: the rewritten
\* OnSendToServer frame was sent to the game on the channel it came on
C13_Witness ==
  /\ last.op = "clientBound"
  /\ last.hooks = <<"throw", "cancel">>
  /\ last.accepted
  /\ last.sent = <<[channelId |-> 1, frame |-> last.raw0]>>
  /\ last.raw0 # last.frame

(***************************************************************************)
(* The task scheduler as scripts use it (proxy.scheduler), and stop().     *)
(* hist.calls holds the scheduleDelayed calls in order, hist.events the    *)
(* calls and the callback runs in the order they happened.                 *)
(***************************************************************************)
Tags == {"", "a", "b"}

InitSched == scenario = "sched" /\ Established

\* a script calls scheduler.scheduleDelayed(fn, delayMs, tag); the callback
\* is named by the number of the call
ScriptSchedule(tag) ==
  /\ scenario = "sched"
  /\ Len(hist.calls) < MaxSchedules
  /\ LET call == Len(hist.calls) + 1
         st == ScheduleDelayed(Cur, [kind |-> "script", call |-> call], tag)
     IN Commit([st EXCEPT
                  !.hist.calls = Append(@, [tag |-> tag, whileRunning |-> phase = "running"]),
                  !.hist.events = Append(@, [e |-> "schedule", call |-> call,
                                             afterStop |-> phase = "stopped"])])
  /\ last' = [op |-> "scheduleDelayed"]
  /\ UNCHANGED <<scenario, commands>>

\* a script calls scheduler.cancelByTag(tag)
ScriptCancelByTag(tag) ==
  /\ scenario = "sched"
  /\ Commit(CancelByTag(Cur, tag))
  /\ last' = [op |-> "cancelByTag"]
  /\ UNCHANGED <<scenario, commands>>

\* a pending timeout of a script's task fires: its callback runs
ScriptTaskFire ==
  /\ scenario = "sched"
  /\ \E timer \in {t \in timers : t.cb.kind = "script"} :
       Commit([TimerFired(Cur, timer) EXCEPT
                 !.hist.events = Append(@, [e |-> "run", call |-> timer.cb.call,
                                            afterStop |-> phase = "stopped"])])
  /\ last' = [op |-> "taskFire"]
  /\ UNCHANGED <<scenario, commands>>

NextSched ==
  \/ \E tag \in Tags : ScriptSchedule(tag)
  \/ \E tag \in Tags \ {""} : ScriptCancelByTag(tag)
  \/ ScriptTaskFire
  \/ Stop

SpecSched == InitSched /\ [][NextSched]_vars

\* the places in hist.events where the callback of a call ran, and the
\* place where the call was made
RunsOf(call) ==
  {k \in 1..Len(hist.events) : hist.events[k].e = "run" /\ hist.events[k].call = call}

ScheduledAt(call) ==
  CHOOSE k \in 1..Len(hist.events) :
    hist.events[k].e = "schedule" /\ hist.events[k].call = call

\* call i was followed by call j under the same non-empty tag before the
\* callback of i had run
Rescheduled(i, j) ==
  /\ i < j
  /\ hist.calls[i].tag # ""
  /\ hist.calls[i].tag = hist.calls[j].tag
  /\ \A k \in RunsOf(i) : k > ScheduledAt(j)

\* C14: after schedule(tag=X, cb, d) followed by schedule(tag=X, cb', d')
\* before cb has fired, for a non-empty tag X, cb never runs and cb' runs at
\* most once; in a longer chain of re-schedules under one tag only the last
\* callback can run
C14_OnlyLastOfATagRuns ==
  \A i, j \in 1..Len(hist.calls) :
    Rescheduled(i, j) => (RunsOf(i) = {} /\ Cardinality(RunsOf(j)) <= 1)

\* a task was scheduled again under its tag before it fired, and the second
\* callback has run
C14_Witness ==
  /\ Len(hist.calls) >= 2
  /\ Rescheduled(1, 2)
  /\ Cardinality(RunsOf(2)) = 1
  /\ phase = "running"

\* C15: after stop() no callback that was scheduled through the task
\* scheduler before the shutdown runs, whatever its tag, the empty tag
\* included, and no upstream retry timer is pending
C15_NoTaskRunsAfterStop ==
  /\ \A k \in 1..Len(hist.events) :
       (hist.events[k].e = "run" /\ hist.events[k].afterStop) =>
         ~hist.calls[hist.events[k].call].whileRunning
  /\ phase = "stopped" => ~upstreamRetryTimer

(***************************************************************************)
(* proxyCore.js: the bootstrap handler of /growtopia/server_data.php       *)
(***************************************************************************)
StrServer == <<115, 101, 114, 118, 101, 114>>
StrPort == <<112, 111, 114, 116>>
StrType2 == <<116, 121, 112, 101, 50>>
StrHashMaint == <<35, 109, 97, 105, 110, 116>>
StrMaint == <<109, 97, 105, 110, 116>>
StrOne == <<49>>
StrCrType == <<13, 116, 121, 112, 101, 124>>
StrLfType == <<10, 116, 121, 112, 101, 124>>
StrCrBetaType == <<13, 98, 101, 116, 97, 95, 116, 121, 112, 101, 124>>
StrLfBetaType == <<10, 98, 101, 116, 97, 95, 116, 121, 112, 101, 124>>
StrCrMeta == <<13, 109, 101, 116, 97, 124>>
StrLfMeta == <<10, 109, 101, 116, 97, 124>>
StrLfLoginUrl == <<10, 108, 111, 103, 105, 110, 117, 114, 108, 124>>
StrInternalServerError ==
  <<73, 110, 116, 101, 114, 110, 97, 108, 32, 83, 101, 114, 118, 101, 114, 32,
    69, 114, 114, 111, 114>>

\* text.replace(/pattern/g, replacement) for a literal pattern
RECURSIVE ReplaceAll(_, _, _)
ReplaceAll(text, pattern, replacement) ==
  IF text = <<>> THEN <<>>
  ELSE IF StartsWith(text, pattern)
       THEN replacement \o ReplaceAll(SubSeq(text, Len(pattern) + 1, Len(text)),
                                      pattern, replacement)
  ELSE <<Head(text)>> \o ReplaceAll(Tail(text), pattern, replacement)

\* text.includes(part)
Includes(text, part) ==
  \E i \in 0..(Len(text) - Len(part)) : SubSeq(text, i + 1, i + Len(part)) = part

\* String(n) of a non-negative integer
RECURSIVE DecimalString(_)
DecimalString(n) ==
  IF n < 10 THEN <<48 + n>> ELSE DecimalString(n \div 10) \o <<48 + (n % 10)>>

NormalizeServerDataBody(rawBody) ==
  ReplaceAll(ReplaceAll(ReplaceAll(CrLfToLf(rawBody), StrCrType, StrLfType),
                        StrCrBetaType, StrLfBetaType),
             StrCrMeta, StrLfMeta)

RECURSIVE MarkerLines(_)
MarkerLines(lines) ==
  IF lines = <<>> THEN <<>>
  ELSE IF Trim(Head(lines)) # <<>> /\ ~Includes(Trim(Head(lines)), ChPipe)
       THEN <<Trim(Head(lines))>> \o MarkerLines(Tail(lines))
  ELSE MarkerLines(Tail(lines))

ExtractServerDataPassthroughLines(rawBody) ==
  MarkerLines(SplitOn(CrLfToLf(rawBody), ChNewline[1]))

\* TextParse.set(key, ...values) without the push of an absent key
RECURSIVE TextSetFound(_, _, _)
TextSetFound(entries, key, values) ==
  IF entries = <<>> THEN <<>>
  ELSE IF Head(entries).key = key
       THEN <<[key |-> key, values |-> values]>> \o Tail(entries)
  ELSE <<Head(entries)>> \o TextSetFound(Tail(entries), key, values)

\* TextParse.contains(key)
TextContains(entries, key) == FindEntry(entries, key) # <<>>

\* TextParse.set(key, ...values): the values of the first entry of that key
\* are replaced, or an entry is pushed
TextSet(entries, key, values) ==
  IF TextContains(entries, key) THEN TextSetFound(entries, key, values)
  ELSE Append(entries, [key |-> key, values |-> values])

\* TextParse.remove(key)
TextRemove(entries, key) == SelectSeq(entries, LAMBDA entry : entry.key # key)

RECURSIVE JoinValues(_)
JoinValues(values) ==
  IF values = <<>> THEN <<>> ELSE ChPipe \o Head(values) \o JoinValues(Tail(values))

\* TextParse.getRaw()
RECURSIVE GetRaw(_)
GetRaw(entries) ==
  IF entries = <<>> THEN <<>>
  ELSE Head(entries).key \o JoinValues(Head(entries).values)
         \o (IF Tail(entries) = <<>> THEN <<>> ELSE ChNewline \o GetRaw(Tail(entries)))

\* handleServerDataRequest: the maintenance records are removed if the
\* first #maint record has a non-empty first value and the flag is not off
WithoutMaintenance(parser, ignoreMaintenance) ==
  IF TextGet(parser, StrHashMaint, 0) # <<>> /\ ignoreMaintenance
  THEN TextRemove(TextRemove(parser, StrHashMaint), StrMaint)
  ELSE parser

\* handleServerDataRequest: the records the answer is rewritten to
RewrittenEntries(parser, ignoreMaintenance) ==
  WithoutMaintenance(
    TextSet(
      TextSet(
        TextSet(IF TextContains(parser, StrType) THEN parser
                ELSE TextSet(parser, StrType, <<StrOne>>),
                StrServer, <<StrLocalhost>>),
        StrPort, <<DecimalString(ListenPort)>>),
      StrType2, <<StrOne>>),
    ignoreMaintenance)

\* handleServerDataRequest: the marker lines the output does not hold yet
\* are appended to it
RECURSIVE AppendPassthrough(_, _)
AppendPassthrough(output, lines) ==
  IF lines = <<>> THEN output
  ELSE IF Includes(output, Head(lines)) THEN AppendPassthrough(output, Tail(lines))
  ELSE AppendPassthrough(IF output # <<>> THEN output \o ChNewline \o Head(lines)
                         ELSE Head(lines),
                         Tail(lines))

\* an attempt fails on an error, a timeout or a status other than 200 alone
AttemptRejected(answer, requiresLoginUrl) == answer.kind # "ok"

\* an attempt against one resolved address: proxyServerDataToUpstream
\* rejects on an error, a timeout or a status other than 200, and a body
\* without a loginurl line is thrown away if platform=0 was asked for
AttemptFails(answer, requiresLoginUrl) ==
  \/ answer.kind # "ok"
  \/ requiresLoginUrl /\ ~Includes(ToLower(ChNewline \o answer.body), StrLfLoginUrl)

\* resolvedIps.slice(0, 2)
FirstTwo(resolvedIps) ==
  SubSeq(resolvedIps, 1, IF Len(resolvedIps) < 2 THEN Len(resolvedIps) ELSE 2)

NoSearch ==
  [lastError |-> FALSE, responseBody |-> <<>>, selectedHost |-> 0, attempts |-> <<>>]

\* the loop over the resolved addresses of one host; answers[ip] is what
\* the upstream gives at that address
RECURSIVE TryResolvedIps(_, _, _, _, _)
TryResolvedIps(search, host, answers, ip, requiresLoginUrl) ==
  IF ip > Len(answers) THEN search
  ELSE IF AttemptFails(answers[ip], requiresLoginUrl)
       THEN TryResolvedIps([search EXCEPT !.lastError = TRUE,
                                          !.attempts = Append(@, <<host, ip>>)],
                           host, answers, ip + 1, requiresLoginUrl)
  ELSE [search EXCEPT !.lastError = FALSE, !.responseBody = answers[ip].body,
                      !.selectedHost = host, !.attempts = Append(@, <<host, ip>>)]

\* the loop over the candidate hosts; upstream[host] lists the answers at
\* the addresses the host resolves to, none if it does not resolve
RECURSIVE TryCandidateHosts(_, _, _, _)
TryCandidateHosts(search, upstream, host, requiresLoginUrl) ==
  IF host > Len(upstream) THEN search
  ELSE IF upstream[host] = <<>>
       THEN TryCandidateHosts(search, upstream, host + 1, requiresLoginUrl)
  ELSE IF ~TryResolvedIps(search, host, FirstTwo(upstream[host]), 1,
                          requiresLoginUrl).lastError
       THEN TryResolvedIps(search, host, FirstTwo(upstream[host]), 1, requiresLoginUrl)
  ELSE TryCandidateHosts(
         TryResolvedIps(search, host, FirstTwo(upstream[host]), 1, requiresLoginUrl),
         upstream, host + 1, requiresLoginUrl)

\* handleServerDataRequest after the search, and the answer of the web
\* handler: the error thrown makes it 500, else the endpoint of the body is
\* kept as the pending one and the rewritten body is the answer
ServerDataAnswered(st, search, parser, ignoreMaintenance) ==
  IF search.lastError \/ parser = <<>>
  THEN [st |-> st, status |-> 500, body |-> StrInternalServerError,
        accepted |-> FALSE, search |-> search]
  ELSE [st |-> [st EXCEPT !.pendingAddress = TextGet(parser, StrServer, 0),
                          !.pendingPort = TextGetInt(parser, StrPort, 0, 65535)],
        status |-> 200,
        body |-> AppendPassthrough(GetRaw(RewrittenEntries(parser, ignoreMaintenance)),
                                   ExtractServerDataPassthroughLines(search.responseBody)),
        accepted |-> TRUE, search |-> search]

ServerDataSearched(st, search, ignoreMaintenance) ==
  ServerDataAnswered(st, search,
                     TextParse(NormalizeServerDataBody(search.responseBody)),
                     ignoreMaintenance)

\* handleServerDataRequest(req, body) behind the web handler
HandleServerDataRequest(st, upstream, requiresLoginUrl, ignoreMaintenance) ==
  ServerDataSearched(st, TryCandidateHosts(NoSearch, upstream, 1, requiresLoginUrl),
                     ignoreMaintenance)

(***************************************************************************)
(* The bootstrap: the answers of the upstream and the rewritten body       *)
(***************************************************************************)
LineServer == <<115, 101, 114, 118, 101, 114, 124, 97>>
LineServerCr == <<115, 101, 114, 118, 101, 114, 124, 97, 13>>
LinePort == <<112, 111, 114, 116, 124, 49, 55, 48, 57, 49>>
LineType == <<116, 121, 112, 101, 124, 50>>
LineHashMaint == <<35, 109, 97, 105, 110, 116, 124, 120>>
LineHashMaintEmpty == <<35, 109, 97, 105, 110, 116, 124>>
LineMaint == <<109, 97, 105, 110, 116, 124, 121>>
LineMarker == <<82, 84, 69, 78, 68>>
LineLoginUrl == <<76, 111, 103, 105, 110, 85, 82, 76, 124, 117>>
LineCrType == <<109, 101, 116, 97, 124, 109, 13, 116, 121, 112, 101, 124, 51>>
LineLoginUrlLower == <<108, 111, 103, 105, 110, 117, 114, 108, 124, 117>>

\* the lines an upstream body of the model is made of
BodyLines ==
  { LineServer, LineServerCr, LinePort, LineType, LineHashMaint, LineHashMaintEmpty,
    LineMaint, LineMarker, LineLoginUrl, LineCrType }

RECURSIVE JoinLines(_)
JoinLines(lines) ==
  IF lines = <<>> THEN <<>>
  ELSE IF Tail(lines) = <<>> THEN Head(lines)
  ELSE Head(lines) \o ChNewline \o JoinLines(Tail(lines))

Bodies ==
  { JoinLines(lines) : lines \in UNION { [1..n -> BodyLines] : n \in 0..MaxBodyLines } }

AnswerError == [kind |-> "error", body |-> <<>>]
AnswerTimeout == [kind |-> "timeout", body |-> <<>>]
AnswerStatus == [kind |-> "status", body |-> <<>>]
AnswerPlain == [kind |-> "ok", body |-> JoinLines(<<LineServer, LinePort>>)]
AnswerLogin == [kind |-> "ok", body |-> JoinLines(<<LineServer, LinePort, LineLoginUrlLower>>)]
AnswerMarker == [kind |-> "ok", body |-> LineMarker]

Answers == {AnswerError, AnswerTimeout, AnswerStatus, AnswerPlain, AnswerLogin}

\* what the addresses of the first candidate host answer
FirstHostAnswers ==
  {<<>>} \cup { <<a>> : a \in Answers \cup {AnswerMarker} }
    \cup { <<a, b>> : a \in {AnswerError, AnswerStatus, AnswerPlain},
                      b \in {AnswerTimeout, AnswerPlain, AnswerLogin} }
    \cup { <<AnswerLogin, AnswerError>>, <<AnswerError, AnswerStatus, AnswerLogin>>,
           <<AnswerTimeout, AnswerPlain, AnswerLogin>> }

\* what the addresses of a later candidate host answer
LaterHostAnswers == { <<>>, <<AnswerError>>, <<AnswerPlain>>, <<AnswerLogin>> }

\* the candidate hosts of a request, each with the answers at its addresses
Upstreams ==
  IF scenario = "rewrite" THEN { << <<[kind |-> "ok", body |-> b]>> >> : b \in Bodies }
  ELSE { <<f>> : f \in FirstHostAnswers }
         \cup { <<f, l>> : f \in FirstHostAnswers, l \in LaterHostAnswers }
         \cup { <<f, l, m>> : f \in {<<>>, <<AnswerError>>}, l \in {<<>>, <<AnswerStatus>>},
                              m \in LaterHostAnswers }

\* the web server answers a request of /growtopia/server_data.php
ServerDataRequest(upstream, requiresLoginUrl, ignoreMaintenance) ==
  /\ scenario \in {"rewrite", "bootstrap"}
  /\ phase = "running"
  /\ Len(hist.calls) < MaxRequests
  /\ \E r \in {HandleServerDataRequest(Cur, upstream, requiresLoginUrl, ignoreMaintenance)} :
        /\ Commit([r.st EXCEPT !.hist.calls = Append(@, r.status)])
        /\ last' = [op |-> "serverData", upstream |-> upstream,
                    requiresLoginUrl |-> requiresLoginUrl,
                    ignoreMaintenance |-> ignoreMaintenance,
                    status |-> r.status, body |-> r.body, accepted |-> r.accepted,
                    attempts |-> r.search.attempts,
                    selectedHost |-> r.search.selectedHost,
                    responseBody |-> r.search.responseBody,
                    pendingBefore |-> [address |-> pendingAddress, port |-> pendingPort]]
  /\ UNCHANGED <<scenario, commands>>

InitRewrite == scenario = "rewrite" /\ Established

NextRewrite ==
  \E upstream \in Upstreams, ignoreMaintenance \in BOOLEAN :
    ServerDataRequest(upstream, FALSE, ignoreMaintenance)

SpecRewrite == InitRewrite /\ [][NextRewrite]_vars

\* the lines of a body, and the key of a line
OutputLines(body) == IF body = <<>> THEN <<>> ELSE SplitOn(body, ChNewline[1])

HasLine(body, line) == \E i \in 1..Len(OutputLines(body)) : OutputLines(body)[i] = line

HasKey(body, key) ==
  \E i \in 1..Len(OutputLines(body)) :
    OutputLines(body)[i] = key \/ StartsWith(OutputLines(body)[i], key \o ChPipe)

\* C16: every accepted upstream body is answered with a body that has the
\* lines server|127.0.0.1, port|<config.server.port> and type2|1 and a line
\* of key type
C16_RewrittenBodyNamesTheProxy ==
  (last.op = "serverData" /\ last.accepted) =>
    /\ last.status = 200
    /\ HasLine(last.body, StrServer \o ChPipe \o StrLocalhost)
    /\ HasLine(last.body, StrPort \o ChPipe \o DecimalString(ListenPort))
    /\ HasLine(last.body, StrType2 \o ChPipe \o StrOne)
    /\ HasKey(last.body, StrType)

\* an accepted body that names another server, has no type and ends in a
\* marker line was rewritten
C16_Witness ==
  /\ last.op = "serverData" /\ last.accepted
  /\ last.responseBody = JoinLines(<<LineServer, LineMarker>>)
  /\ HasLine(last.body, LineMarker)
  /\ ~HasLine(last.body, LineServer)

\* C17: with the ignore-maintenance flag on, the answer to an accepted
\* upstream body has no record of key #maint and none of key maint
C17_NoMaintenanceRecordLeft ==
  (last.op = "serverData" /\ last.accepted /\ last.ignoreMaintenance) =>
    ~HasKey(last.body, StrHashMaint) /\ ~HasKey(last.body, StrMaint)

(***************************************************************************)
(* The bootstrap: the search over the candidate hosts                      *)
(***************************************************************************)
InitBootstrap == scenario = "bootstrap" /\ Established

NextBootstrap ==
  \E upstream \in Upstreams, requiresLoginUrl \in BOOLEAN :
    ServerDataRequest(upstream, requiresLoginUrl, TRUE)

SpecBootstrap == InitBootstrap /\ [][NextBootstrap]_vars

\* the addresses to try, in order: the hosts in candidate order, the first
\* two addresses of each
RECURSIVE CandidateOrder(_, _)
CandidateOrder(upstream, host) ==
  IF host > Len(upstream) THEN <<>>
  ELSE [ip \in 1..(IF Len(upstream[host]) < 2 THEN Len(upstream[host]) ELSE 2) |->
          <<host, ip>>]
         \o CandidateOrder(upstream, host + 1)

\* an attempt that fails: an error, a timeout, a status other than 200, or
\* a body with no loginurl| line when platform=0 was requested
Failed(answer, requiresLoginUrl) ==
  \/ answer.kind \in {"error", "timeout", "status"}
  \/ /\ requiresLoginUrl
     /\ \A i \in 1..Len(OutputLines(answer.body)) :
          ~StartsWith(ToLower(OutputLines(answer.body)[i]), Tail(StrLfLoginUrl))

\* the positions in the order whose attempt succeeds
Successes(upstream, requiresLoginUrl) ==
  { k \in 1..Len(CandidateOrder(upstream, 1)) :
      ~Failed(upstream[CandidateOrder(upstream, 1)[k][1]][CandidateOrder(upstream, 1)[k][2]],
              requiresLoginUrl) }

FirstSuccess(upstream, requiresLoginUrl) ==
  CHOOSE k \in Successes(upstream, requiresLoginUrl) :
    \A j \in Successes(upstream, requiresLoginUrl) : k <= j

\* C18: the candidates are tried in order, hosts in candidate order and at
\* most two addresses per host; a failed attempt makes the next one be
\* tried, the first success ends the search, and when every candidate fails
\* the answer is 500 and the pending endpoint is left as it was
C18_CandidatesTriedInOrder ==
  last.op = "serverData" =>
    IF Successes(last.upstream, last.requiresLoginUrl) = {}
    THEN /\ last.attempts = CandidateOrder(last.upstream, 1)
         /\ last.status = 500
         /\ pendingAddress = last.pendingBefore.address
         /\ pendingPort = last.pendingBefore.port
    ELSE /\ last.attempts =
              SubSeq(CandidateOrder(last.upstream, 1), 1,
                     FirstSuccess(last.upstream, last.requiresLoginUrl))
         /\ last.selectedHost = last.attempts[Len(last.attempts)][1]
         /\ last.responseBody =
              last.upstream[last.attempts[Len(last.attempts)][1]]
                           [last.attempts[Len(last.attempts)][2]].body

\* with platform=0, the first host times out at its first address and
\* answers without loginurl at its second, its third address is not tried,
\* and the second host answers with loginurl
C18_Witness ==
  /\ last.op = "serverData" /\ last.requiresLoginUrl
  /\ last.upstream = << <<AnswerTimeout, AnswerPlain, AnswerLogin>>, <<AnswerLogin>> >>
  /\ last.attempts = << <<1, 1>>, <<1, 2>>, <<2, 1>> >>
  /\ last.status = 200
  /\ pendingAddress = StrHost /\ pendingPort = UpstreamPort

(***************************************************************************)
(* The retry budget: every connect call of the transport fails             *)
(***************************************************************************)
InitRetry ==
  /\ scenario = "retry"
  /\ RelayInit
  /\ world = WorldClear
  /\ commands = RepositoryCommands
  /\ last = [op |-> "init"]

NextRetry ==
  \/ Start
  \/ \E endpoint \in Endpoints : BootstrapCompletion(endpoint)
  \/ \E env \in ConnectEnvs : InboundConnectEvent(env)
  \/ \E env \in ConnectEnvs : RetryTimerFire(env)

SpecRetry == InitRetry /\ [][NextRetry]_vars

\* C2 as stated: at most 12 retries are scheduled and connectPendingServer
\* runs at most 12 times
C2_AsStated ==
  /\ hist.retriesScheduled <= RetryBudget
  /\ hist.connectRuns <= RetryBudget

\* C2 amended: counting from the first connectPendingServer call, while a
\* retry is pending as many retries were scheduled as runs were made, at
\* most 12; once none is pending exactly 12 retries were scheduled and
\* connectPendingServer has run 13 times, the first call and the 12 retries
C2_TwelveRetriesThirteenRuns ==
  hist.connectRuns > 0 =>
    \/ /\ upstreamRetryTimer
       /\ hist.retriesScheduled = hist.connectRuns
       /\ hist.retriesScheduled <= RetryBudget
       /\ upstreamRetryCount = hist.retriesScheduled
    \/ /\ ~upstreamRetryTimer
       /\ hist.retriesScheduled = RetryBudget
       /\ hist.connectRuns = RetryBudget + 1
       /\ hist.connectCalls >= hist.connectRuns

\* the budget is spent: the thirteenth run has failed and nothing is pending
C2_Witness ==
  /\ clientPeer # NoPeer
  /\ HasPendingEndpoint(pendingAddress, pendingPort)
  /\ hist.connectRuns = RetryBudget + 1
  /\ hist.retriesScheduled = RetryBudget
  /\ ~upstreamRetryTimer

(***************************************************************************)
(* The injection API on its own: sendVariantToClient                       *)
(***************************************************************************)
VariantNames == {StrOnChangeSkin, StrOnNameChanged, <<97>>}

VariantValues == {Str(<<>>), Str(<<120>>), Num(0), Num(5), Num(-1), Num(16777216)}

VariantArgLists ==
  {<<>>} \cup {<<a>> : a \in VariantValues}
         \cup {<<a, b>> : a \in VariantValues, b \in VariantValues}

InitInject == scenario = "inject" /\ Established

\* a script or a command handler calls proxy.sendVariantToClient
ScriptSendVariant(functionName, args, netId) ==
  /\ scenario \in {"inject", "frames"}
  /\ \E st \in {SendVariantToClient(Cur, functionName, args, netId, 0, 0, 0)} :
        /\ Commit(st)
        /\ last' = [op |-> "sendVariant", functionName |-> functionName, args |-> args,
                    sent |-> st.toClient]
  /\ UNCHANGED <<scenario, commands>>

NextInject ==
  \E functionName \in VariantNames, args \in VariantArgLists, netId \in {-1, MaxNetId} :
    ScriptSendVariant(functionName, args, netId)

SpecInject == InitInject /\ [][NextInject]_vars

\* C6: the frame sendVariantToClient hands to the transport is the 60-byte
\* header, the encoded extra and one more NUL, and parsePacket of it gives
\* variantArgs = [functionName, ...args]
C6_SentFrameRoundTrips ==
  last.op = "sendVariant" =>
    /\ Len(last.sent) = 1
    /\ LET frame == last.sent[1].frame IN
       /\ Len(frame) = TankHeaderLen + ReadUInt32LE(frame, 56) + 1
       /\ frame[Len(frame)] = 0
       /\ ParsePacket(frame).variantArgs = <<Str(last.functionName)>> \o last.args

(***************************************************************************)
(* The tank frames the proxy builds: the rewritten OnSendToServer frame    *)
(* and the frame of sendVariantToClient                                    *)
(***************************************************************************)
InitFrames == scenario = "frames" /\ Established

NextFrames ==
  \/ \E data \in ClientBoundFrames, env \in ConnectEnvs : OutboundRawEvent(0, 0, data, <<>>, env)
  \/ \E args \in VariantArgLists, netId \in {-1, MaxNetId} :
       ScriptSendVariant(StrOnChangeSkin, args, netId)

SpecFrames == InitFrames /\ [][NextFrames]_vars

\* the tank frames the latest handler built
BuiltFrames ==
  IF last.op = "clientBound"
  THEN (IF last.rewritten THEN {last.raw0} ELSE {})
  ELSE IF last.op = "sendVariant"
  THEN { last.sent[i].frame : i \in 1..Len(last.sent) }
  ELSE {}

\* the size field at offset 56 counts the bytes after the 60-byte header,
\* or those bytes less one terminating NUL
SizeFieldCountsExtra(frame) ==
  /\ Len(frame) >= TankHeaderLen
  /\ ReadUInt32LE(frame, 0) = NET_MESSAGE_GAME_PACKET
  /\ \/ ReadUInt32LE(frame, 56) = Len(frame) - TankHeaderLen
     \/ /\ frame[Len(frame)] = 0
        /\ ReadUInt32LE(frame, 56) = Len(frame) - TankHeaderLen - 1

\* C19: every tank frame the proxy builds, the rewritten OnSendToServer
\* frame and the frame of sendVariantToClient, has a 60-byte header whose
\* u32 at offset 56 is the number of extra bytes after the header, a single
\* terminating NUL not counted
C19_BuiltFramesCarryTheirSize ==
  \A frame \in BuiltFrames : SizeFieldCountsExtra(frame)

\* a frame of the game server came with bytes after its payload and the
\* route was rewritten to a longer one: the rebuilt frame has another size
\* than the received one, and no terminator
C19_Witness ==
  /\ last.op = "clientBound" /\ last.rewritten
  /\ last.frame[Len(last.frame)] = 7
  /\ ReadUInt32LE(last.raw0, 56) > ReadUInt32LE(last.frame, 56)
  /\ ReadUInt32LE(last.raw0, 56) = Len(last.raw0) - TankHeaderLen

(***************************************************************************)
(* The variant codec on its own: encodeVariantArgs, then parseVariantArgs  *)
(***************************************************************************)
\* the number of values of a byte: the count and the index of an argument
\* are written in one
ByteValues == 256

INT32_MIN == 0 - INT32_MAX - 1

\* "", "x", e acute, the euro sign, a pair of surrogates, and a high
\* surrogate alone
CodecStrings ==
  { <<>>, <<120>>, <<233>>, <<8364>>, <<55357, 56832>>, <<55296>>, <<120, 56832, 0>> }

\* 0, 5, 2^31 - 1, 2^31, 2^32 - 1, -1 and -2^31
CodecIntegers ==
  { Num(0), Num(5), Num(INT32_MAX), Wide(INT32_MIN), Wide(-1), Num(-1), Num(INT32_MIN) }

CodecValues == { Str(s) : s \in CodecStrings } \cup CodecIntegers

\* the lists of up to two values, and lists as long as a byte counts, one
\* shorter and one longer
CodecArgLists ==
  {<<>>} \cup { <<a>> : a \in CodecValues }
         \cup { <<a, b>> : a \in CodecValues, b \in CodecValues }
         \cup { [i \in 1..n |-> Num(i % 3)] : n \in ByteValues..(ByteValues + 1) }

InitCodec == scenario = "codec" /\ Established

\* parseVariantArgs(encodeVariantArgs(args))
EncodeThenParse(args) ==
  /\ scenario = "codec"
  /\ Commit(Cur)
  /\ last' = [op |-> "roundTrip", args |-> args,
              entries |-> ParseVariantEntries(EncodeVariantArgs(args)),
              parsed |-> ParseVariantArgs(EncodeVariantArgs(args))]
  /\ UNCHANGED <<scenario, commands>>

NextCodec == \E args \in CodecArgLists : EncodeThenParse(args)

SpecCodec == InitCodec /\ [][NextCodec]_vars

\* the tag an integer of -2^31..2^32-1 is to be carried under
TagOf(value) ==
  IF IsWide(value) \/ value.v[1] >= 0 THEN VARIANT_UNSIGNED ELSE VARIANT_SIGNED

\* C20: parseVariantArgs(encodeVariantArgs(args)) is args for every list of
\* strings and integers of -2^31..2^32-1, an integer of 0..2^32-1 carried
\* under the tag UNSIGNED and a negative one under the tag SIGNED
C20_EncodeThenParseGivesArgs ==
  last.op = "roundTrip" =>
    /\ last.parsed = last.args
    /\ last.entries.ok
    /\ Len(last.entries.entries) = Len(last.args)
    /\ \A i \in 1..Len(last.args) :
         last.args[i].t = "num" => last.entries.entries[i].type = TagOf(last.args[i])

(***************************************************************************)
(* The text frames on their own: parsePacket, then buildTextPacket         *)
(***************************************************************************)
\* NUL, "a", e acute in two bytes, and a byte that is no UTF-8
TextBytes == {0, 97, 195, 169, 255}

RECURSIVE BytesUpTo(_)
BytesUpTo(n) ==
  IF n = 0 THEN {<<>>}
  ELSE BytesUpTo(n - 1) \cup { Append(t, b) : t \in BytesUpTo(n - 1), b \in TextBytes }

\* the frames of the three text message types and of an unknown one, with
\* up to MaxTextLen bytes after the type, and frames cut in the type
TextFrames ==
  { WriteUInt32LE(type) \o body :
      type \in {NET_MESSAGE_SERVER_HELLO, NET_MESSAGE_GENERIC_TEXT,
                NET_MESSAGE_GAME_MESSAGE, 7},
      body \in BytesUpTo(MaxTextLen) }
    \cup { <<>>, <<2>>, <<2, 0, 0>> }

InitText == scenario = "text" /\ Established

\* parsePacket(R), and buildTextPacket(parsed.messageType, parsed.text) if
\* R was taken as a text frame
ClassifyThenBuild(frame) ==
  /\ scenario = "text"
  /\ Commit(Cur)
  /\ \E parsed \in {ParsePacket(frame)} :
       last' = [op |-> "reemit", frame |-> frame, kind |-> parsed.kind,
                text |-> parsed.text,
                rebuilt |-> IF parsed.kind = "text"
                            THEN BuildTextPacket(parsed.messageType, parsed.text)
                            ELSE <<>>]
  /\ UNCHANGED <<scenario, commands>>

NextText == \E frame \in TextFrames : ClassifyThenBuild(frame)

SpecText == InitText /\ [][NextText]_vars

\* whether bytes are well-formed UTF-8 from the first to the last
RECURSIVE WellFormedUtf8(_)
WellFormedUtf8(bytes) ==
  IF bytes = <<>> THEN TRUE
  ELSE /\ SequenceLen(bytes[1]) > 0
       /\ WellFormedPrefix(bytes, 1) = SequenceLen(bytes[1])
       /\ WellFormedUtf8(SubSeq(bytes, SequenceLen(bytes[1]) + 1, Len(bytes)))

\* the bytes the text of a frame is decoded from
TextBytesOf(frame) == Slice(StripNullTerminator(frame), 4, Len(StripNullTerminator(frame)))

\* C21 as stated: for every frame R taken as a text frame, the frame built
\* from its message type and text is the first len(text)+5 bytes of R,
\* whether or not R ended in NUL
C21_AsStated ==
  (last.op = "reemit" /\ last.kind = "text") =>
    /\ Len(last.frame) >= Len(last.rebuilt)
    /\ last.rebuilt = SubSeq(last.frame, 1, Len(last.rebuilt))

\* C21: for every frame R taken as a text frame whose text bytes are
\* well-formed UTF-8, the frame built from its message type and text is R
\* if R ended in NUL and R followed by one NUL if it did not
C21_RebuiltIsFrameTerminated ==
  (last.op = "reemit" /\ last.kind = "text" /\ WellFormedUtf8(TextBytesOf(last.frame))) =>
    last.rebuilt = IF last.frame[Len(last.frame)] = 0 THEN last.frame
                   ELSE Append(last.frame, 0)

\* a frame of e acute and "a" that did not end in NUL was built again, one
\* byte longer
C21_Witness ==
  /\ last.op = "reemit" /\ last.kind = "text"
  /\ last.frame = WriteUInt32LE(NET_MESSAGE_GENERIC_TEXT) \o <<195, 169, 97>>
  /\ last.text = <<233, 97>>
  /\ Len(last.rebuilt) = Len(last.frame) + 1

(***************************************************************************)
(* Frames the relay does not take apart: both peers send frames the        *)
(* classifier tags raw and OnSendToServer frames the rewrite declines,     *)
(* with every run of subscribers                                           *)
(***************************************************************************)
InitRaw == scenario = "raw" /\ Established

NextRaw ==
  \/ \E data \in ServerBoundFrames, hooks \in ServerBoundHooks : InboundRawEvent(0, data, hooks)
  \/ \E data \in ClientBoundFrames, hooks \in ClientBoundHooks, env \in ConnectEnvs :
       OutboundRawEvent(0, 0, data, hooks, env)

SpecRaw == InitRaw /\ [][NextRaw]_vars

\* whether the received frame of the report is an OnSendToServer frame the
\* relay leaves as it came: its arguments do not decode to an endpoint, or
\* its payload cannot be rewritten
HandoffLeftAlone ==
  /\ last.op = "clientBound"
  /\ last.packetId = "OnSendToServer"
  /\ \/ ~last.accepted
     \/ RewriteOnSendToServerExtra(ParsePacket(last.frame).extra, StrLocalhost, ListenPort) = <<>>

\* C22: a frame tagged raw, and a client-bound OnSendToServer frame whose
\* payload cannot be parsed or rewritten, goes to the opposite peer byte for
\* byte as it was received when no subscriber cancels it or replaces it
C22_UnparsedFramesPassUnchanged ==
  (/\ last.op \in {"serverBound", "clientBound"}
   /\ last.kind = "raw" \/ HandoffLeftAlone
   /\ ~ChangesCanceled(last.hooks)
   /\ ~ReplacesRaw(last.hooks)
   /\ last.hadPeer)
    => last.sent = <<[channelId |-> last.channelId, frame |-> last.frame]>>

\* an OnSendToServer frame without a port entry went to the game as received
C22_Witness ==
  /\ HandoffLeftAlone
  /\ last.accepted
  /\ last.hooks = <<>>
  /\ last.sent = <<[channelId |-> 0, frame |-> last.frame]>>

(***************************************************************************)
(* The game connected before the bootstrap: connections, bootstrap         *)
(* completions and the retry timer, with the transport and the timers      *)
(* delivering what they owe                                                *)
(***************************************************************************)
InitWaiting ==
  /\ scenario = "waiting"
  /\ RelayInit
  /\ world = WorldClear
  /\ commands = RepositoryCommands
  /\ last = [op |-> "init"]

NextWaiting ==
  \/ Start
  \/ \E endpoint \in Endpoints : BootstrapCompletion(endpoint)
  \/ \E env \in ConnectEnvs : InboundConnectEvent(env)
  \/ InboundDisconnectEvent
  \/ \E n \in Slots : OutboundConnectEvent(n)
  \/ \E n \in Slots, env \in ConnectEnvs : OutboundDisconnectEvent(n, env)
  \/ \E env \in ConnectEnvs : RetryTimerFire(env)

SpecWaiting == InitWaiting /\ [][NextWaiting]_vars

\* the transport delivers the events it owes and a pending timeout fires
FairWaiting ==
  /\ SpecWaiting
  /\ \A n \in Slots : WF_vars(Owed(n))
  /\ WF_vars(inConn = "closing" /\ InboundDisconnectEvent)
  /\ WF_vars(\E env \in ConnectEnvs : RetryTimerFire(env))

\* the game is connected, the bootstrap has left a valid endpoint, there is
\* no outbound peer, no connect in flight and no retry pending
AwaitingConnect ==
  /\ phase = "running"
  /\ clientPeer # NoPeer
  /\ inConn = "connected"
  /\ serverPeer = NoPeer
  /\ \A n \in Slots : outConns[n] = "free"
  /\ HasPendingEndpoint(pendingAddress, pendingPort)
  /\ ~upstreamRetryTimer
  /\ upstreamRetryCount = 0

\* a connect to the pending endpoint was attempted: it is in flight, or it
\* was refused and a retry is counted
ConnectAttempted ==
  \/ \E n \in Slots : outConns[n] # "free"
  \/ upstreamRetryTimer
  \/ upstreamRetryCount > 0

\* C23: once the game is connected and the bootstrap completes with a valid
\* endpoint while there is no outbound peer, a connect to that endpoint is
\* eventually attempted unless the game leaves first
C23_ConnectFollowsBootstrap ==
  AwaitingConnect ~> (ConnectAttempted \/ clientPeer = NoPeer)

(***************************************************************************)
(* The upstream server going away: connections, handoffs and the retry     *)
(* timer, with a report of what the outbound disconnect handler did        *)
(***************************************************************************)
InitDrop ==
  /\ scenario = "drop"
  /\ RelayInit
  /\ world = WorldClear
  /\ commands = RepositoryCommands
  /\ last = [op |-> "init"]

NextDrop ==
  \/ Start
  \/ \E endpoint \in Endpoints : BootstrapCompletion(endpoint)
  \/ \E env \in ConnectEnvs : InboundConnectEvent(env)
  \/ InboundDisconnectEvent
  \/ \E n \in Slots : OutboundConnectEvent(n)
  \/ \E n \in Slots, data \in ClientBoundFrames, env \in ConnectEnvs :
       OutboundRawEvent(n, 0, data, <<>>, env)
  \/ \E n \in Slots, env \in ConnectEnvs : OutboundDisconnectEvent(n, env)
  \/ \E env \in ConnectEnvs : RetryTimerFire(env)

SpecDrop == InitDrop /\ [][NextDrop]_vars

AskedToLeave == [peer |-> "client", mode |-> "later"]

\* C24 as stated: an outbound disconnect event empties the outbound slot;
\* with an inbound peer and a valid pending endpoint a connect is attempted
\* and the inbound peer is not asked to disconnect; otherwise the inbound
\* peer, if any, is asked to disconnect later and no connect is attempted
C24_AsStated ==
  last.op = "outboundDisconnect" =>
    /\ serverPeer = NoPeer
    /\ IF last.hadClient /\ last.pendingValid
       THEN last.connectCalls >= 1 /\ last.requests = <<>>
       ELSE /\ last.connectCalls = 0
            /\ last.requests = IF last.hadClient THEN <<AskedToLeave>> ELSE <<>>

\* C25: an inbound disconnect keeps a pending endpoint whose host is not
\* blank and whose port is in 1..65535 and resets any other to ('', 65535);
\* afterwards there is no inbound peer, no retry timer, the retry counter
\* is 0 and the world is empty
C25_InboundDisconnectResets ==
  last.op = "inboundDisconnect" =>
    /\ IF /\ \E i \in 1..Len(last.pendingAddress) : ~IsWhiteSpace(last.pendingAddress[i])
          /\ last.pendingPort \in 1..65535
       THEN pendingAddress = last.pendingAddress /\ pendingPort = last.pendingPort
       ELSE pendingAddress = <<>> /\ pendingPort = 65535
    /\ clientPeer = NoPeer
    /\ ~upstreamRetryTimer
    /\ upstreamRetryCount = 0
    /\ world = WorldClear

\* a blank host with a port in range was reset while a retry was pending
C25_Witness ==
  /\ last.op = "inboundDisconnect"
  /\ last.pendingAddress = <<32>>
  /\ last.pendingPort = UpstreamPort
  /\ last.hadTimer
  /\ pendingAddress = <<>>
  /\ pendingPort = NoPort

\* the step changes the pending endpoint
PendingChanged == <<pendingAddress, pendingPort>>' # <<pendingAddress, pendingPort>>

\* the step initiates an outbound connect
Initiated ==
  /\ last'.op \in {"inboundConnect", "outboundDisconnect", "retryTimer", "clientBound"}
  /\ last'.initiated

PendingCleared == pendingAddress' = <<>> /\ pendingPort' = NoPort

\* the step is a bootstrap completion that leaves its endpoint pending
SetByBootstrap ==
  /\ last'.op = "bootstrap"
  /\ pendingAddress' = last'.endpoint.address
  /\ pendingPort' = last'.endpoint.port

\* the step is an accepted OnSendToServer that leaves its endpoint pending
SetByHandoff ==
  /\ last'.op = "clientBound"
  /\ last'.accepted
  /\ pendingAddress' = last'.decoded.address
  /\ pendingPort' = last'.decoded.port

\* the step is an accepted OnSendToServer whose connect was refused: the
\* address is pending as connectPendingServer cleaned it
SetByHandoffCleaned ==
  /\ last'.op = "clientBound"
  /\ last'.accepted
  /\ pendingAddress' = Trim(RemoveNul(last'.decoded.address))
  /\ pendingPort' = last'.decoded.port

\* the step is an inbound disconnect that resets an endpoint that is not
\* valid
ResetByInboundDisconnect ==
  /\ last'.op = "inboundDisconnect"
  /\ ~HasPendingEndpoint(pendingAddress, pendingPort)
  /\ PendingCleared

\* the step is a run of connectPendingServer that initiates nothing and
\* leaves the address cleaned
CleanedByConnect ==
  /\ last'.op \in {"inboundConnect", "outboundDisconnect", "retryTimer"}
  /\ ~Initiated
  /\ pendingAddress' = Trim(RemoveNul(pendingAddress))
  /\ pendingPort' = pendingPort

\* C26 as stated: a bootstrap completion and an accepted OnSendToServer
\* overwrite the pending endpoint, and nothing else changes it but the
\* clearing by a successful outbound initiation
C26_AsStated ==
  [][/\ last'.op = "bootstrap" => SetByBootstrap
     /\ last'.op = "clientBound" /\ last'.accepted =>
          SetByHandoff \/ (Initiated /\ PendingCleared)
     /\ Initiated => PendingCleared
     /\ PendingChanged => SetByBootstrap \/ SetByHandoff \/ (Initiated /\ PendingCleared)]_vars

\* C26: a bootstrap completion and an accepted OnSendToServer overwrite the
\* pending endpoint; a successful outbound initiation clears it; the only
\* other changes are an inbound disconnect resetting an endpoint that is
\* not valid and connectPendingServer storing the cleaned address
C26_PendingEndpointWrites ==
  [][/\ last'.op = "bootstrap" => SetByBootstrap
     /\ last'.op = "clientBound" /\ last'.accepted =>
          SetByHandoff \/ SetByHandoffCleaned \/ (Initiated /\ PendingCleared)
     /\ Initiated => PendingCleared
     /\ PendingChanged =>
          \/ SetByBootstrap
          \/ SetByHandoff
          \/ SetByHandoffCleaned
          \/ Initiated /\ PendingCleared
          \/ ResetByInboundDisconnect
          \/ CleanedByConnect]_vars

\* a pending endpoint with port 0 was reset by an inbound disconnect
C26_Witness ==
  /\ last.op = "inboundDisconnect"
  /\ last.pendingAddress = StrHost
  /\ last.pendingPort = 0
  /\ pendingAddress = <<>>
  /\ pendingPort = NoPort

\* the handler of the report ran connectPendingServer
RanConnect ==
  /\ last.op \in {"inboundConnect", "outboundDisconnect", "retryTimer", "clientBound"}
  /\ last.targets # <<>>

\* the pending endpoint is the target of the run with its address cleaned
HoldsCleanedTarget ==
  /\ pendingAddress = Trim(RemoveNul(last.targets[1].address))
  /\ pendingPort = last.targets[1].port

\* C27 as stated: a run of connectPendingServer that initiates a connect
\* leaves ('', 65535) pending, the retry counter at 0 and no retry timer;
\* a run that initiates none leaves the cleaned target pending
C27_AsStated ==
  RanConnect =>
    IF last.initiated
    THEN /\ pendingAddress = <<>> /\ pendingPort = 65535
         /\ upstreamRetryCount = 0
         /\ ~upstreamRetryTimer
    ELSE HoldsCleanedTarget

\* C27: a run of connectPendingServer that initiates a connect leaves
\* ('', 65535) pending, the retry counter at 0 and no retry timer; a run
\* that initiates none leaves the cleaned target pending when the cleaned
\* address is not empty and the port is in 1..65535, and the endpoint as it
\* was otherwise
C27_ConnectRunLeaves ==
  RanConnect =>
    IF last.initiated
    THEN /\ pendingAddress = <<>> /\ pendingPort = 65535
         /\ upstreamRetryCount = 0
         /\ ~upstreamRetryTimer
    ELSE IF /\ Trim(RemoveNul(last.targets[1].address)) # <<>>
            /\ last.targets[1].port \in 1..65535
    THEN HoldsCleanedTarget
    ELSE /\ pendingAddress = last.targets[1].address
         /\ pendingPort = last.targets[1].port

\* the retry timer fired and its run initiated the connect
C27_Witness ==
  /\ last.op = "retryTimer"
  /\ last.initiated
  /\ last.targets = <<[address |-> StrHost, port |-> UpstreamPort, hadServer |-> FALSE]>>
  /\ pendingAddress = <<>>
  /\ upstreamRetryCount = 0

\* the handler of the report ran connectPendingServer while an outbound
\* peer was in the slot
StaleRun == RanConnect /\ last.targets[1].hadServer

TargetValid ==
  /\ Trim(RemoveNul(last.targets[1].address)) # <<>>
  /\ last.targets[1].port \in 1..65535

DroppedNow == [peer |-> "server", mode |-> "now"]

\* the retry timer fired on a valid target with the outbound slot empty
\* and the run called the transport's connect
FiringConnects ==
  (last.op = "retryTimer" /\ TargetValid /\ ~last.targets[1].hadServer)
    => last.connects >= 1

\* C28 as stated: a run of connectPendingServer with an outbound peer in
\* the slot makes no connect call, requests disconnect-now on the peer,
\* empties the slot, keeps the pending endpoint and, with an inbound peer,
\* leaves a retry timer pending; the firing of the timer makes the connect
\* call
C28_AsStated ==
  /\ StaleRun =>
       /\ last.connects = 0
       /\ last.requests = <<DroppedNow>>
       /\ serverPeer = NoPeer
       /\ pendingAddress = last.targets[1].address
       /\ pendingPort = last.targets[1].port
       /\ clientPeer # NoPeer => upstreamRetryTimer
  /\ FiringConnects

\* C28: a run of connectPendingServer with an outbound peer in the slot
\* makes no connect call; when its target is valid it requests
\* disconnect-now on the peer, empties the slot, leaves the cleaned target
\* pending and, with an inbound peer, a retry timer pending; when its
\* target is not valid it leaves the peer and the endpoint as they were;
\* the firing of the timer on a valid target and an empty slot makes the
\* connect call
C28_StaleRunRetriesLater ==
  /\ StaleRun =>
       /\ last.connects = 0
       /\ IF TargetValid
          THEN /\ last.requests = <<DroppedNow>>
               /\ serverPeer = NoPeer
               /\ HoldsCleanedTarget
               /\ clientPeer # NoPeer => upstreamRetryTimer
          ELSE /\ last.requests = <<>>
               /\ serverPeer # NoPeer
               /\ pendingAddress = last.targets[1].address
               /\ pendingPort = last.targets[1].port
  /\ FiringConnects

\* an inbound connect ran connectPendingServer while an outbound peer was
\* in the slot: the peer was dropped and the retry is pending
C28_Witness ==
  /\ StaleRun
  /\ TargetValid
  /\ last.op = "inboundConnect"
  /\ last.requests = <<DroppedNow>>
  /\ serverPeer = NoPeer
  /\ upstreamRetryTimer

\* the handler of the report scheduled a retry
Scheduled ==
  /\ last.op \in {"inboundConnect", "outboundDisconnect", "retryTimer"}
  /\ last.delays # <<>>

\* C29: the k-th retry since the counter was reset is delayed
\* min(3000, 250 k) ms, k in 1..12; the delays do not decrease and are at
\* most 3000 ms; no retry is pending once the counter is over 12; a handler
\* schedules one retry at most, and none while one is pending
C29_RetryDelays ==
  /\ Scheduled =>
       /\ Len(last.delays) = 1
       /\ upstreamRetryTimer
       /\ upstreamRetryCount \in 1..12
       /\ \E k \in 1..12 :
            /\ k = upstreamRetryCount
            /\ last.delays[1] = (IF 250 * k <= 3000 THEN 250 * k ELSE 3000)
       /\ last.delays[1] <= 3000
       /\ last.hadTimer => last.op = "retryTimer"
  /\ upstreamRetryTimer => upstreamRetryCount \in 1..12
  /\ \A k \in 1..11 : DelayMs(k) <= DelayMs(k + 1)

\* the twelfth retry was scheduled, 3000 ms ahead
C29_Witness ==
  /\ Scheduled
  /\ upstreamRetryCount = 12
  /\ last.delays = <<3000>>

(***************************************************************************)
(* The rewritten OnSendToServer payload against the payload received       *)
(***************************************************************************)
\* the entries of the payload the handler took from the frame received, and
\* of the payload of the frame it built, by the size its header gives
ReceivedEntries == ParseVariantEntries(ParsePacket(last.frame).extra)

BuiltEntries == ParseVariantEntries(ExtraOfFrame(last.raw0))

\* the text from its first '|' on, nothing when it has none
FromFirstPipe(text) ==
  IF \A i \in 1..Len(text) : text[i] # 124 THEN <<>>
  ELSE LET first == CHOOSE i \in 1..Len(text) :
                      text[i] = 124 /\ \A j \in 1..(i - 1) : text[j] # 124
       IN SubSeq(text, first, Len(text))

\* count and order are kept, and every entry of an index other than 1 and 4
\* is kept byte for byte
EntriesKept ==
  /\ BuiltEntries.ok
  /\ BuiltEntries.count = ReceivedEntries.count
  /\ Len(BuiltEntries.entries) = Len(ReceivedEntries.entries)
  /\ \A i \in 1..Len(ReceivedEntries.entries) :
       /\ BuiltEntries.entries[i].index = ReceivedEntries.entries[i].index
       /\ ReceivedEntries.entries[i].index \notin {1, 4} =>
            BuiltEntries.entries[i].encoded = ReceivedEntries.entries[i].encoded

\* argument 4 of the rewritten payload is 127.0.0.1 and the received
\* argument 4 from its first '|' on
Arg4Rewritten ==
  LET received == ParseVariantArgs(ParsePacket(last.frame).extra)
      rewritten == ParseVariantArgs(ExtraOfFrame(last.raw0))
  IN /\ Len(rewritten) >= 5
     /\ rewritten[5] = Str(StrLocalhost \o FromFirstPipe(received[5].v))

\* the positions of the entries of index 4 in the payload received
RoutePositions ==
  {i \in 1..Len(ReceivedEntries.entries) : ReceivedEntries.entries[i].index = 4}

\* the first entry of index 4 holds 127.0.0.1 and its received text from
\* the first '|' on
FirstRouteRewritten ==
  \E i \in RoutePositions :
    /\ \A j \in RoutePositions : i <= j
    /\ BuiltEntries.entries[i].value =
         Str(StrLocalhost \o FromFirstPipe(ReceivedEntries.entries[i].value.v))

\* C30 as stated: in a rewritten OnSendToServer payload argument 4 is
\* 127.0.0.1 followed by the received route text from its first '|' on, the
\* entry count and order are kept, and every entry of an index other than 1
\* and 4 is byte-identical
C30_AsStated ==
  (last.op = "clientBound" /\ last.rewritten) => Arg4Rewritten /\ EntriesKept

\* C30: in a rewritten OnSendToServer payload the first entry of index 4 is
\* 127.0.0.1 followed by its received text from the first '|' on, which is
\* argument 4 when no other entry has index 4; the entry count and order are
\* kept, and every entry of an index other than 1 and 4 is byte-identical
C30_FirstRouteEntryRewritten ==
  (last.op = "clientBound" /\ last.rewritten) =>
    /\ EntriesKept
    /\ FirstRouteRewritten
    /\ Cardinality(RoutePositions) = 1 => Arg4Rewritten

\* a payload of seven entries was rewritten: argument 4 names the proxy and
\* keeps the rest of the route
C30_Witness ==
  /\ last.op = "clientBound"
  /\ last.rewritten
  /\ Len(ReceivedEntries.entries) = 7
  /\ Cardinality(RoutePositions) = 1
  /\ ParseVariantArgs(ExtraOfFrame(last.raw0))[5] = Str(StrLocalhost \o <<124, 100, 124, 117>>)

(***************************************************************************)
(* A command whose handler throws: the relay with the repository's         *)
(* commands and one script command whose handler throws.                   *)
(***************************************************************************)
InitFaulty == scenario = "faulty" /\ Established

NextFaulty ==
  \/ \E data \in ServerBoundFrames, hooks \in ServerBoundHooks : InboundRawEvent(0, data, hooks)
  \/ \E n \in Slots, data \in ClientBoundFrames, hooks \in ClientBoundHooks, env \in ConnectEnvs :
       OutboundRawEvent(n, 0, data, hooks, env)
  \/ \E n \in Slots, env \in ConnectEnvs : OutboundDisconnectEvent(n, env)
  \/ \E n \in Slots : OutboundConnectEvent(n)
  \/ WarpTaskFire

SpecFaulty == InitFaulty /\ [][NextFaulty]_vars

\* the Input frames whose first candidate names the command that throws
ThrowingFrames == { InputFrame(CmdBoom), TwoCandidatesFrame }

\* the handler that threw ran once and no other handler ran: what it wrote
\* before the throw is there once, and nothing of a later candidate
RanOnceOnly ==
  /\ last.dispatch.name = StrBoom
  /\ last.dispatch.text = CmdBoom
  /\ Len(last.injectedToClient) = 1
  /\ last.injectedToServer = <<>>
  /\ last.requests = <<>>

C32_AsStated ==
  last.op \in {"serverBound", "clientBound"} =>
    /\ last.invoked = Len(last.hooks)
    /\ last.forwarded <=>
         /\ ~last.canceled
         /\ (IF last.op = "serverBound" THEN serverPeer ELSE clientPeer) # NoPeer

(***************************************************************************)
(* TextParse.tokenize and TextParse.parse on their own: texts over a       *)
(* delimiter, a line break and a letter.                                   *)
(***************************************************************************)
MaxRawLen == 5

RECURSIVE TextsUpTo(_)
TextsUpTo(n) ==
  IF n = 0 THEN {<<>>}
  ELSE TextsUpTo(n - 1) \cup
       { Append(t, c) : t \in {u \in TextsUpTo(n - 1) : Len(u) = n - 1},
                        c \in {ChPipe[1], ChNewline[1], 97} }

InitTokens == scenario = "tokens" /\ Established

\* new TextParse(raw): the lines of raw, tokenize of each, and the entries
ParseText(raw) ==
  /\ scenario = "tokens"
  /\ Commit(Cur)
  /\ \E lines \in {SplitOn(raw, ChNewline[1])} :
       last' = [op |-> "parse", raw |-> raw, lines |-> lines,
                tokens |-> [i \in 1..Len(lines) |-> Tokenize(lines[i])],
                entries |-> TextParse(raw)]
  /\ UNCHANGED <<scenario, commands>>

NextTokens == \E raw \in TextsUpTo(MaxRawLen) : ParseText(raw)

SpecTokens == InitTokens /\ [][NextTokens]_vars

\* the position of the first token that is not empty, one past the end if
\* there is none
FirstNonEmpty(split) ==
  IF \E i \in 1..Len(split) : split[i] # <<>>
  THEN CHOOSE i \in 1..Len(split) : split[i] # <<>> /\ \A j \in 1..(i - 1) : split[j] = <<>>
  ELSE Len(split) + 1

\* the entries of the lines that have at least two tokens, in order
EntriesOfTokens(tokens) ==
  LET kept == SelectSeq(tokens, LAMBDA t : Len(t) >= 2) IN
  [i \in 1..Len(kept) |-> [key |-> kept[i][1], values |-> Tail(kept[i])]]

\* C33 as stated: tokenize(line) is the line split on the delimiter with the
\* first token removed if it is empty and every other empty token kept (only
\* one leading empty token is dropped); parse keeps the lines that tokenize
\* to at least two tokens, in order.
C33_AsStated ==
  last.op = "parse" =>
    /\ \A i \in 1..Len(last.lines) :
         LET split == SplitOn(last.lines[i], ChPipe[1]) IN
         last.tokens[i] = IF Head(split) = <<>> THEN Tail(split) ELSE split
    /\ last.entries = EntriesOfTokens(last.tokens)

\* C33 amended: tokenize(line) is the line split on the delimiter without
\* the empty tokens that come before the first token that is not empty (all
\* of them, and so nothing is left of a line of delimiters only); every later
\* empty token is kept in place; parse keeps the lines that tokenize to at
\* least two tokens, in order, the first token as the key and the rest as the
\* values.
C33_LeadingEmptyTokensDropped ==
  last.op = "parse" =>
    /\ \A i \in 1..Len(last.lines) :
         LET split == SplitOn(last.lines[i], ChPipe[1]) IN
         last.tokens[i] = SubSeq(split, FirstNonEmpty(split), Len(split))
    /\ last.entries = EntriesOfTokens(last.tokens)

\* a line with two leading delimiters and an empty token in the middle
C33_Witness ==
  /\ last.op = "parse"
  /\ last.raw = <<124, 124, 97, 124, 124>>
  /\ last.tokens = << <<<<97>>, <<>>, <<>>>> >>
  /\ last.entries = <<[key |-> <<97>>, values |-> <<<<>>, <<>>>>]>>

(***************************************************************************)
(* parseVariantEntries and parseVariantArgs on extra buffers with a fault: *)
(* buffers of entries of every type, cut short or with a type tag the      *)
(* decoder does not know.                                                  *)
(***************************************************************************)
\* one entry of each of the six types
SampleEntries ==
  << BuildVariantEntry(0, VARIANT_STRING, Str(<<120, 121>>)),
     BuildVariantEntry(1, VARIANT_UNSIGNED, Num(5)),
     BuildVariantEntry(2, VARIANT_FLOAT, Flt(<<0, 0, 128, 63>>)),
     BuildVariantEntry(3, VARIANT_VEC2, Vec(<<0, 0, 128, 63, 0, 0, 0, 64>>)),
     BuildVariantEntry(4, VARIANT_VEC3, Vec(<<0, 0, 128, 63, 0, 0, 0, 64, 0, 0, 64, 64>>)),
     BuildVariantEntry(5, VARIANT_SIGNED, Num(-1)) >>

\* the entry lists of the buffers, as positions in SampleEntries
SampleLists == { <<1>>, <<1, 2>>, <<3, 1>>, <<4, 6>>, <<5>>, <<2, 1, 6>>, <<6, 3, 1>> }

RECURSIVE Concatenated(_)
Concatenated(list) ==
  IF list = <<>> THEN <<>> ELSE SampleEntries[Head(list)] \o Concatenated(Tail(list))

\* the count byte and the entries
ExtraOfList(list) == <<Len(list)>> \o Concatenated(list)

\* the type tags the decoder does not know
UnknownTags == {0, 6, 7, 8, 10, 255}

\* the 1-based position of the type tag of the j-th entry
TagPosition(list, j) == 1 + Len(Concatenated(SubSeq(list, 1, j - 1))) + 2

FaultyExtras ==
  { [buffer |-> ExtraOfList(list), fault |-> "none", entry |-> 0, announced |-> Len(list)] :
      list \in SampleLists }
  \cup { [buffer |-> ExtraOfList(list) \o <<7, 7>>, fault |-> "none", entry |-> 0,
          announced |-> Len(list)] : list \in SampleLists }
  \cup UNION { { [buffer |-> SubSeq(ExtraOfList(list), 1, k), fault |-> "truncated",
                  entry |-> 0, announced |-> Len(list)] :
                 k \in 1..(Len(ExtraOfList(list)) - 1) } : list \in SampleLists }
  \cup UNION { { [buffer |-> [ExtraOfList(list) EXCEPT ![TagPosition(list, j)] = tag],
                  fault |-> "type", entry |-> j, announced |-> Len(list)] :
                 j \in 1..Len(list), tag \in UnknownTags } : list \in SampleLists }

InitVariants == scenario = "variants" /\ Established

\* parseVariantEntries(extra) and parseVariantArgs(extra)
DecodeExtra(input) ==
  /\ scenario = "variants"
  /\ Commit(Cur)
  /\ last' = [op |-> "decode", buffer |-> input.buffer, fault |-> input.fault,
              entry |-> input.entry, announced |-> input.announced,
              entries |-> ParseVariantEntries(input.buffer),
              args |-> ParseVariantArgs(input.buffer)]
  /\ UNCHANGED <<scenario, commands>>

NextVariants == \E input \in FaultyExtras : DecodeExtra(input)

SpecVariants == InitVariants /\ [][NextVariants]_vars

\* C34: parseVariantEntries reports failure, and parseVariantArgs returns the
\* empty list, whenever one of the announced entries is cut short or carries
\* a type tag outside {1, 2, 3, 4, 5, 9}; no entry decoded before the fault
\* is returned. A buffer without a fault decodes to its announced entries.
C34_FaultFailsWholeBuffer ==
  last.op = "decode" =>
    /\ last.fault # "none" =>
         /\ ~last.entries.ok
         /\ last.entries.entries = <<>>
         /\ last.args = <<>>
    /\ last.fault = "none" =>
         /\ last.entries.ok
         /\ last.entries.count = last.announced
         /\ Len(last.entries.entries) = last.announced

\* the third of three entries carries an unknown tag: the two decoded before
\* it are not returned
C34_Witness ==
  /\ last.op = "decode"
  /\ last.fault = "type"
  /\ last.entry = 3
  /\ last.announced = 3
  /\ ~last.entries.ok
  /\ last.args = <<>>

(***************************************************************************)
(* The relay from construction to stop(): transport events of both hosts,  *)
(* bootstrap completions, retry timer firings and stop() in any order.     *)
(***************************************************************************)
InitSlots ==
  /\ scenario = "slots"
  /\ RelayInit
  /\ world = WorldClear
  /\ commands = RepositoryCommands
  /\ last = [op |-> "init"]

NextSlots ==
  \/ Start
  \/ Stop
  \/ \E endpoint \in Endpoints : BootstrapCompletion(endpoint)
  \/ \E env \in ConnectEnvs : InboundConnectEvent(env)
  \/ InboundDisconnectEvent
  \/ \E n \in Slots : OutboundConnectEvent(n)
  \/ \E n \in Slots, data \in ClientBoundFrames, env \in ConnectEnvs :
       OutboundRawEvent(n, 0, data, <<>>, env)
  \/ \E n \in Slots, env \in ConnectEnvs : OutboundDisconnectEvent(n, env)
  \/ \E env \in ConnectEnvs : RetryTimerFire(env)

SpecSlots == InitSlots /\ [][NextSlots]_vars

\* C35: whenever an upstream retry timer is pending, the inbound peer slot
\* is occupied and the outbound peer slot is empty, in every reachable state
\* of the relay under transport events, bootstrap completions, timer firings
\* and stop().
C35_TimerMeansWaitingForUpstream ==
  upstreamRetryTimer => (clientPeer # NoPeer /\ serverPeer = NoPeer)

\* a retry is pending while a connect initiated earlier is still in flight
C35_Witness ==
  /\ upstreamRetryTimer
  /\ clientPeer # NoPeer
  /\ serverPeer = NoPeer
  /\ upstreamRetryCount >= 1
  /\ \E n \in Slots : outConns[n] = "connecting"

\* the outbound connections that are established or being established
OutboundOpen == {n \in Slots : outConns[n] \in {"connecting", "connected"}}

\* C36 as stated: at any time at most one outbound transport connection is
\* established or being established; connectPendingServer does not call the
\* transport's connect while a connection initiated earlier has had neither
\* its connect event nor its disconnect event.
C36_AsStated == Cardinality(OutboundOpen) <= 1

\* C37 as stated: an outbound disconnect event whose net-id is not that of
\* the current outbound peer changes nothing: the outbound slot keeps its
\* peer, no peer is asked to disconnect and no connect is started.
C37_AsStated ==
  (/\ last.op = "outboundDisconnect"
   /\ last.serverPeerBefore # NoPeer
   /\ last.n # last.serverPeerBefore) =>
    /\ serverPeer = last.serverPeerBefore
    /\ last.requests = <<>>
    /\ last.connects = 0
    /\ ~upstreamRetryTimer

\* C38 as stated: a frame the relay's own rules canceled (a server-bound
\* Quit or Disconnect, or an Input that dispatched a command) is not
\* forwarded, whatever the subscribers do to the context afterwards, setting
\* context.canceled back to false included.
C38_AsStated ==
  (last.op = "serverBound" /\ last.intercepted) =>
    /\ ~last.forwarded
    /\ last.sent = <<>>

(***************************************************************************)
(* Frames that arrive while the opposite peer slot is empty: the game is   *)
(* connected and the outbound connect is in flight; the peers come and go  *)
(* while frames arrive. hist.events holds the arrivals, hist.wire the      *)
(* frames handed to the transport.                                         *)
(***************************************************************************)
InitGap ==
  /\ scenario = "gap"
  /\ phase = "running"
  /\ clientPeer = 0
  /\ serverPeer = NoPeer
  /\ pendingAddress = <<>>
  /\ pendingPort = NoPort
  /\ upstreamRetryTimer = FALSE
  /\ upstreamRetryCount = 0
  /\ proxyClientListening = TRUE
  /\ tasksByTag = {}
  /\ timers = {}
  /\ exitTimer = FALSE
  /\ inConn = "connected"
  /\ outConns = [n \in Slots |-> IF n = 0 THEN "connecting" ELSE "free"]
  /\ hist = HistZero
  /\ world = WorldClear
  /\ commands = RepositoryCommands
  /\ last = [op |-> "init"]

NextGap ==
  \/ \E data \in OrderServerBound, hooks \in OrderHooks :
       Arrived < MaxArrivals /\ InboundRawEvent(0, data, hooks)
  \/ \E n \in Slots, data \in OrderClientBound, hooks \in OrderHooks, env \in ConnectEnvs :
       Arrived < MaxArrivals /\ OutboundRawEvent(n, 0, data, hooks, env)
  \/ \E n \in Slots : OutboundConnectEvent(n)
  \/ \E n \in Slots, env \in ConnectEnvs : OutboundDisconnectEvent(n, env)
  \/ InboundDisconnectEvent
  \/ \E env \in ConnectEnvs : InboundConnectEvent(env)

SpecGap == InitGap /\ [][NextGap]_vars

\* the arrivals a handler took while the slot of the opposite peer was empty
ArrivedInGap ==
  {k \in 1..Len(hist.events) : hist.events[k].handled /\ ~hist.events[k].hadPeer}

\* the arrival a frame on the wire was sent for
ArrivalOf(w) ==
  {k \in 1..Len(hist.events) :
     /\ hist.events[k].direction = w.direction
     /\ hist.events[k].arrival = w.arrival}

\* C39: a frame received while the slot of the opposite peer is empty is
\* dropped after the subscribers ran; it is not kept, and no frame handed to
\* the transport later, after a peer connected, is that frame: every frame on
\* the wire was sent by the handler of its own arrival, with the opposite
\* peer in place.
C39_DroppedInTheGap ==
  /\ (last.op \in {"serverBound", "clientBound"} /\ ~last.hadPeer) =>
       /\ last.invoked = Len(Invoked(last.hooks))
       /\ last.sent = <<>>
       /\ ~last.forwarded
  /\ \A i \in 1..Len(hist.wire) :
       /\ ArrivalOf(hist.wire[i]) # {}
       /\ \A k \in ArrivalOf(hist.wire[i]) :
            /\ hist.events[k].handled
            /\ hist.events[k].hadPeer
            /\ hist.events[k].frame = hist.wire[i].received
       /\ \A j \in 1..Len(hist.wire) :
            (hist.wire[j].direction = hist.wire[i].direction
               /\ hist.wire[j].arrival = hist.wire[i].arrival) => j = i
  /\ Len(hist.wire) + Cardinality(ArrivedInGap) <= Len(hist.events)

\* a frame of the game arrived while the outbound connect was in flight; the
\* outbound peer connected afterwards and a later frame was forwarded: the
\* wire holds the later frame only
C39_Witness ==
  /\ Len(hist.events) = 2
  /\ hist.events[1].direction = "serverBound"
  /\ hist.events[1].handled /\ ~hist.events[1].hadPeer
  /\ hist.events[2].direction = "serverBound"
  /\ hist.events[2].hadPeer
  /\ serverPeer # NoPeer
  /\ Len(hist.wire) = 1
  /\ hist.wire[1].arrival = 2

(***************************************************************************)
(* The command registry on its own: register and execute                   *)
(***************************************************************************)
CmdAlphabet == {0, 32, 33, 47, 65, 97}

RECURSIVE SeqsUpTo(_, _)
SeqsUpTo(S, n) ==
  IF n = 0 THEN {<<>>}
  ELSE LET shorter == SeqsUpTo(S, n - 1) IN
       shorter \cup {Append(t, c) : t \in shorter, c \in S}

CmdTexts == SeqsUpTo(CmdAlphabet, MaxCmdLen) \cup {<<65279, 47, 97>>, <<47, 65279, 97>>}

\* names handed to register(): upper case, padded and with a character
\* outside [a-z0-9_-], and the empty name
RegisterNames == {<<65>>, <<32, 97, 33>>, <<>>}

InitCmd ==
  /\ scenario = "cmd"
  /\ RelayInit
  /\ world = WorldClear
  /\ commands = {}
  /\ last = [op |-> "init"]

\* CommandRegistry.register(name, description, handler)
RegistryRegister(name) ==
  LET key == ToLower(Trim(name)) IN
  /\ scenario = "cmd"
  /\ commands' = IF key = <<>> THEN commands ELSE commands \cup {key}
  /\ last' = [op |-> "register"]
  /\ UNCHANGED <<scenario, relayVars, world>>

\* CommandRegistry.execute(text) with handlers that do nothing
RegistryExecute(text) ==
  /\ scenario = "cmd"
  /\ last' = [op |-> "execute", text |-> text, result |-> Execute(commands, text)]
  /\ UNCHANGED <<scenario, relayVars, world, commands>>

NextCmd ==
  \/ \E name \in RegisterNames : RegistryRegister(name)
  \/ \E text \in CmdTexts : RegistryExecute(text)

SpecCmd == InitCmd /\ [][NextCmd]_vars

\* the first whitespace-separated token after the prefix of a normalized
\* text n is n[i..j]
IsFirstToken(n, i, j) ==
  /\ 2 <= i /\ i <= j /\ j <= Len(n)
  /\ \A k \in 2..(i - 1) : IsWhiteSpace(n[k])
  /\ \A k \in i..j : ~IsWhiteSpace(n[k])
  /\ j = Len(n) \/ IsWhiteSpace(n[j + 1])

\* C9 as stated: execute(T) is true iff the normalized text starts with the
\* prefix, its first token after the prefix consists of [a-z0-9_-] only
\* (case-insensitively) and that token is a registered name
C9_AsStated ==
  last.op = "execute" =>
    LET n == NormalizeInput(last.text) IN
    last.result.ran <=>
      /\ StartsWith(n, Prefix)
      /\ \E i \in 2..Len(n), j \in 2..Len(n) :
           /\ IsFirstToken(n, i, j)
           /\ \A k \in i..j : IsNameChar(ToLowerChar(n[k]))
           /\ ToLower(SubSeq(n, i, j)) \in commands

\* C9 amended: execute(T) is true iff the normalized text starts with the
\* prefix, its first token after the prefix begins with a non-empty run of
\* [a-z0-9_-] (case-insensitively), and that leading run, lower-cased and
\* taken as long as possible, is a registered name
C9_LeadingRunRegistered ==
  last.op = "execute" =>
    LET n == NormalizeInput(last.text) IN
    last.result.ran <=>
      /\ StartsWith(n, Prefix)
      /\ \E i \in 2..Len(n), j \in 2..Len(n) :
           /\ IsFirstToken(n, i, j)
           /\ \E k \in i..j :
                /\ \A m \in i..k : IsNameChar(ToLowerChar(n[m]))
                /\ k = j \/ ~IsNameChar(ToLowerChar(n[k + 1]))
                /\ ToLower(SubSeq(n, i, k)) \in commands

\* a text whose first token runs past the registered name it starts with
C9_Witness ==
  /\ last.op = "execute"
  /\ last.result.ran
  /\ last.result.name # ToLower(SplitWhiteSpace(Trim(Tail(NormalizeInput(last.text))), <<>>)[1])

(***************************************************************************)
(* The world state on its own: onSpawn, onRemove, clear                    *)
(***************************************************************************)
StrOther == <<111, 116, 104, 101, 114>>

SpawnPayloads ==
  [spawn : {<<>>}, netId : -1..MaxNetId, userId : {7}, name : {<<97>>},
   type : {StrLocal, StrOther, <<>>}]

InitWorld ==
  /\ scenario = "world"
  /\ RelayInit
  /\ world = WorldClear
  /\ commands = {}
  /\ last = [op |-> "init"]

WorldStateOnSpawn(payload) ==
  /\ scenario = "world"
  /\ world' = WorldOnSpawn(world, payload)
  /\ last' = [op |-> "onSpawn", payload |-> payload]
  /\ UNCHANGED <<scenario, relayVars, commands>>

WorldStateOnRemove(netId) ==
  /\ scenario = "world"
  /\ world' = WorldOnRemove(world, netId)
  /\ last' = [op |-> "onRemove", netId |-> netId]
  /\ UNCHANGED <<scenario, relayVars, commands>>

WorldStateClear ==
  /\ scenario = "world"
  /\ world' = WorldClear
  /\ last' = [op |-> "clear"]
  /\ UNCHANGED <<scenario, relayVars, commands>>

NextWorld ==
  \/ \E payload \in SpawnPayloads : WorldStateOnSpawn(payload)
  \/ \E netId \in -1..MaxNetId : WorldStateOnRemove(netId)
  \/ WorldStateClear

SpecWorld == InitWorld /\ [][NextWorld]_vars

\* C7: localNetId is -1 whenever the map holds no participant of type local
C7_LocalNetIdClearedWhenNoLocal ==
  (\A q \in world.players : q.type # StrLocal) => world.localNetId = -1

\* C40: after any sequence of onSpawn, onRemove and clear, localNetId is -1
\* or the net-id of a participant that is in the map, and every key of the
\* map is at least 0
C40_LocalNetIdNamesParticipant ==
  /\ world.localNetId = -1 \/ \E q \in world.players : q.netId = world.localNetId
  /\ \A q \in world.players : q.netId >= 0
  /\ \A q, r \in world.players : q.netId = r.netId => q = r

\* a spawn of type local with a negative net-id was ignored: the local
\* participant spawned before is still in the map and still named
C40_Witness ==
  /\ last.op = "onSpawn"
  /\ last.payload.netId < 0
  /\ last.payload.type = StrLocal
  /\ world.localNetId = 1
  /\ \E q \in world.players : q.netId = 1
  /\ Cardinality(world.players) = 1

====
